---- MODULE Spec2Model ----
(***************************************************************************)
(* A model of bevy_egui's render integration core: the user-texture       *)
(* registry (EguiUserTextures), the managed-texture store driven by the   *)
(* per-target texture deltas (update_egui_textures_system,                *)
(* free_egui_textures_system), the extraction of the store to the render  *)
(* world with its bind-group cache, and the render-graph node setup and   *)
(* teardown systems of the extraction schedule.                           *)
(*                                                                         *)
(* The specifications share the variables; each leaves the other parts of *)
(* the state at their initial values:                                      *)
(*   SpecUserTextures  the registry and its asset-event cleanup            *)
(*   SpecTextures      managed textures, assets, extraction, bind groups   *)
(*   SpecUserDeltas    deltas with user ids in an app with user textures   *)
(*   SpecNodes         markers, change detection and the render graph      *)
(*   SpecIme           the IME events of a target                          *)
(*   SpecContexts      the targets' contexts, accessors and transforms     *)
(*   SpecSchedule      the order of the systems in a frame                 *)
(*   SpecTransform     the transform of a target's size and scale          *)
(*   SpecBindGroups    the texture bind groups over render frames          *)
(*   SpecPipelines     the pipelines and bind groups over render frames    *)
(*   SpecPlugin        the plugin in an app with or without a render app   *)
(***************************************************************************)
EXTENDS Integers, Sequences, FiniteSets, TLC

VARIABLES
    \* ---- user textures (lib.rs, EguiUserTextures) ----
    egui_user_textures, \* [textures: Handle -> u64 (partial), last_texture_id: u64]
    call,               \* the operation the last step performed, with its argument
    ret,                \* what that operation returned
    image_events,       \* AssetEvent::Removed ids not yet read by free_egui_textures_system
    lastId,             \* per handle, what add_image returned for it last, if called (history)
    idsOf               \* per handle, every id add_image ever assigned to it (history)

VARIABLES
    \* ---- managed textures (lib.rs) and their render-world copies ----
    render_output,          \* per render target, EguiRenderOutput.textures_delta: [set, free]
    despawned,              \* the render targets whose entity has been despawned
    egui_managed_textures,  \* EguiManagedTextures: (Entity, u64) -> [handle, color_image]
    image_assets,           \* Assets<Image>: asset id -> image
    next_asset,             \* the id the next Assets::add returns
    warnings,               \* warn! lines of the last run of update_egui_textures_system
    panicked,               \* a system has panicked (the app is gone)
    extracted_managed,      \* ExtractedEguiManagedTextures: (Entity, u64) -> handle
    extracted_user,         \* the render world's EguiUserTextures
    gpu_images,             \* RenderAssets<GpuImage>: the asset ids with a GPU image
    bind_groups,            \* EguiTextureBindGroups: the EguiTextureId keys it holds
    render_commands,        \* the render world's insert_resource commands not yet applied
    phase,                  \* where the frame is: "pass", "last", "extract", "queue", "queued"
    emitted                 \* texture-delta entries the passes have produced so far

VARIABLES
    \* ---- render targets and the render graph (render_systems.rs) ----
    alive,           \* the entities that exist
    next_gen,        \* per entity index, the generation of the next entity spawned there
    windows,         \* the entities with a Window component
    render_to_image, \* the entities with an EguiRenderToImage component
    primary_window,  \* the entities with a PrimaryWindow component
    synced,          \* the entities with SyncToRenderWorld, which get a RenderEntity
    added_window,    \* Added<Window>, as setup_new_window_nodes_system will see it
    added_image,     \* Added<EguiRenderToImage>, as the image setup system will see it
    removed_window,  \* RemovedComponents<Window> not yet read by the window teardown
    removed_image,   \* RemovedComponents<EguiRenderToImage> not yet read by the image teardown
    render_graph,    \* RenderGraph: label -> the edges recorded at the node
    pending,         \* the node systems that have yet to run in this extraction
    removed_nodes,   \* the nodes the teardown systems took out in the latest extraction
    teardown_log,    \* the events and log::error! calls of the teardown run, if the step was one
    changes,         \* the steps of the main world's own systems so far
    gphase           \* "main": changed since the last extraction; "extract"; "settled"

VARIABLES
    \* ---- IME transitions (lib.rs, EguiContextQueryItem) ----
    has_sent_ime_enabled, \* per target, EguiContext::has_sent_ime_enabled
    egui_input_events,    \* per target, the Ime events in EguiInput::events
    ime_sent,             \* per target, every Ime event pushed so far, in order
    ime_call              \* the latest call on a target: [op, target]

varsI == <<has_sent_ime_enabled, egui_input_events, ime_sent, ime_call>>

VARIABLES
    \* ---- per-target state and the transforms (lib.rs, render_systems.rs) ----
    egui_context,     \* entity -> state of its EguiContext ("default" or "used"); the
                      \* entity has EguiSettings, EguiRenderOutput, EguiInput,
                      \* EguiFullOutput, EguiOutput and RenderTargetSize with it
    new_windows,      \* Added<Window>, as setup_new_windows_system will see it
    new_images,       \* Added<EguiRenderToImage>, as the handles setup system will see it
    commands,         \* the insert commands queued and not yet applied
    cphase,           \* where the tick is: in the InitContexts chain, or the render frame
    quiet,            \* render frames completed since the main world last changed (0..2)
    ctx_call,         \* the latest step on the contexts: [op, entity]
    ctx_panicked,     \* ctx_for_entity_mut has panicked
    extracted_targets, \* render world: the entities with EguiSettings and RenderTargetSize
    render_only,      \* the render world has an entity of its own with the two components
    egui_transforms   \* EguiTransforms: [buffer, offsets, gpu_buffer, bind_group]

varsC == <<egui_context, new_windows, new_images, commands, cphase, quiet,
           ctx_call, ctx_panicked, extracted_targets, render_only, egui_transforms>>

VARIABLES
    \* ---- the schedules of a frame (lib.rs, EguiPlugin::build and ::finish) ----
    schedule,         \* the schedule that is running
    done,             \* the systems that have run in this frame
    input_processed,  \* the targets whose input process_input_system has handled in this frame
    output_at         \* target whose pass has begun in this frame -> where its output is:
                      \* "context", "full_output", "render_output" or "store"

varsS == <<schedule, done, input_processed, output_at>>

VARIABLES
    \* ---- the transform of a target (render_systems.rs, EguiTransform) ----
    render_target_size,  \* a RenderTargetSize: physical size and scale factor
    egui_scale_factor,   \* EguiSettings::scale_factor of the target
    egui_transform       \* None, or the EguiTransform computed from the two

varsM == <<render_target_size, egui_scale_factor, egui_transform>>

VARIABLES
    \* ---- the pipelines of the targets (render_systems.rs, queue_pipelines_system) ----
    extracted_windows,     \* ExtractedWindows: entity -> swap_chain_texture_format (an Option)
    image_targets,         \* render world: entity -> handle of its EguiRenderToImage
    specialized_pipelines, \* SpecializedRenderPipelines<EguiPipeline>: key -> pipeline id
    egui_pipelines,        \* EguiPipelines: MainEntity -> pipeline id
    pphase,                \* "queue": queue_pipelines_system has yet to run on the frame;
                           \* "queued": its command has yet to be applied
    queue_log              \* the targets and user textures the latest runs of the queue
                           \* systems skipped, and those they queued of the ones their
                           \* run before had skipped (history)

varsP == <<extracted_windows, image_targets, specialized_pipelines, egui_pipelines, pphase,
           queue_log>>

VARIABLES
    \* ---- the app and the plugin (lib.rs, EguiPlugin::build and ::finish) ----
    app     \* [render_app, stage, main_resources, render_resources, main_systems,
            \*  render_systems, schedule, ran, skipped, started, updated, panicked]

varsA == <<app>>

\* The variables of the specifications other than the schedules'.
varsL == <<varsM, varsP, varsA>>

\* The variables of the specifications that came after the first three.
varsX == <<varsI, varsC, varsS, varsL>>

varsU == <<egui_user_textures, call, ret, image_events, lastId, idsOf>>

varsG == <<alive, next_gen, windows, render_to_image, primary_window, synced,
           added_window, added_image,
           removed_window, removed_image, render_graph, pending, removed_nodes,
           teardown_log,
           changes, gphase>>

varsT == <<render_output, despawned, egui_managed_textures, image_assets, next_asset,
           warnings, panicked, extracted_managed, extracted_user, gpu_images,
           bind_groups, render_commands, phase, emitted>>

vars == <<varsU, varsT, varsG, varsX>>

(***************************************************************************)
(* Bounds.                                                                 *)
(***************************************************************************)
NumHandles == 2     \* image handles the host code uses with the registry
MaxUserIds == 3     \* registrations explored (the counter itself is a u64)
MaxSpawned == 2     \* entities spawned over a run
MaxChanges == 4     \* spawns, insertions and calls of the main world's own systems
MaxImeEvents == 3   \* Ime events pushed per target over a run
MaxEntries == 2     \* texture-delta entries produced over a run
MaxFactor == 2      \* numerators of the scale factors explored (over 1 and over 2)

NumTargets == 2     \* render targets the texture manager sees over a run

\* bevy_ecs Entity: (index, generation)
Indices == 0 .. (MaxSpawned - 1)
Entities == {e \in Indices \X Indices : e[1] + e[2] < MaxSpawned}

\* The entities that become render targets of the texture manager.
TexEntities == (0 .. (NumTargets - 1)) \X {0}

Handles == 0 .. (NumHandles - 1)

None == <<>>
Some(x) == <<x>>

\* The orders in which a query, an event reader or a map may yield the
\* elements it has: the ECS and the hasher decide, the code does not.
Orders(set) ==
    {order \in [1 .. Cardinality(set) -> set] :
        \A i, j \in 1 .. Cardinality(set) : i # j => order[i] # order[j]}

\* egui::TextureId
User(id) == <<"User", id>>
Managed(id) == <<"Managed", id>>

(***************************************************************************)
(* EguiUserTextures                                                        *)
(***************************************************************************)
MapInsert(f, k, v) == [x \in (DOMAIN f) \cup {k} |-> IF x = k THEN v ELSE f[x]]
MapRemove(f, k) == [x \in (DOMAIN f) \ {k} |-> f[x]]
EmptyMap == [x \in {} |-> 0]

\* Mutants of add_image: one allocates on every call, one takes the id from
\* the number of registered handles instead of the counter.
add_image_always_new(self, image) ==
    [self |-> [textures |-> MapInsert(self.textures, image, self.last_texture_id),
               last_texture_id |-> self.last_texture_id + 1],
     ret |-> User(self.last_texture_id)]

add_image_id_from_len(self, image) ==
    IF image \in DOMAIN self.textures
    THEN [self |-> self, ret |-> User(self.textures[image])]
    ELSE [self |-> [textures |-> MapInsert(self.textures, image,
                                           Cardinality(DOMAIN self.textures)),
                    last_texture_id |-> Cardinality(DOMAIN self.textures) + 1],
          ret |-> User(Cardinality(DOMAIN self.textures))]

\* entry(image).or_insert_with(|| { id = last_texture_id; last_texture_id += 1; id })
add_image(self, image) ==
    IF image \in DOMAIN self.textures
    THEN [self |-> self, ret |-> User(self.textures[image])]
    ELSE [self |-> [textures |-> MapInsert(self.textures, image, self.last_texture_id),
                    last_texture_id |-> self.last_texture_id + 1],
          ret |-> User(self.last_texture_id)]

\* Mutant of remove_image: reports the id and leaves the mapping in place.
remove_image_keeps(self, image) ==
    [self |-> self,
     ret |-> IF image \in DOMAIN self.textures
             THEN Some(User(self.textures[image])) ELSE None]

\* textures.remove(image).map(TextureId::User)
remove_image(self, image) ==
    [self |-> [textures |-> MapRemove(self.textures, image),
               last_texture_id |-> self.last_texture_id],
     ret |-> IF image \in DOMAIN self.textures
             THEN Some(User(self.textures[image])) ELSE None]

\* textures.get(image).map(|&id| TextureId::User(id))
image_id(self, image) ==
    IF image \in DOMAIN self.textures THEN Some(User(self.textures[image])) ELSE None

\* Mutant of the asset-event loop: the events are read and nothing is removed.
RemoveAll_ignores_events(self, ids) == self

\* The asset-event loop of free_egui_textures_system: remove_image for every
\* AssetEvent::Removed id.  Each removal deletes one key, so the order in
\* which the events are read does not matter.
RECURSIVE RemoveAll(_, _)
RemoveAll(self, ids) ==
    IF ids = {} THEN self
    ELSE LET id == CHOOSE x \in ids : TRUE
         IN RemoveAll(remove_image(self, id).self, ids \ {id})

(***************************************************************************)
(* Images.  egui::ColorImage is a size [w, h] and w*h pixels in rows;      *)
(* image[(x, y)] asserts x < w && y < h and reads pixels[y * w + x].       *)
(***************************************************************************)
Width(img) == img.size[1]
Height(img) == img.size[2]
InImage(img, x, y) == x < Width(img) /\ y < Height(img)
Pixel(img, x, y) == img.pixels[y * Width(img) + x + 1]
SetPixel(img, x, y, c) == [img EXCEPT !.pixels[y * Width(img) + x + 1] = c]

\* Mutant of update_image_rect: writes the patch at the origin.
RECURSIVE update_image_rect_no_offset(_, _, _, _)
update_image_rect_no_offset(dest, pos, src, i) ==
    IF i >= Width(src) * Height(src) THEN dest
    ELSE LET sx == i % Width(src)
             sy == i \div Width(src)
         IN update_image_rect_no_offset(SetPixel(dest, sx, sy, Pixel(src, sx, sy)),
                                        pos, src, i + 1)

\* for sy in 0..src.height() { for sx in 0..src.width() {
\*     dest[(x + sx, y + sy)] = src[(sx, sy)] } }
\* i counts the iterations done: iteration i has sy = i / width, sx = i % width.
RECURSIVE update_image_rect(_, _, _, _)
update_image_rect(dest, pos, src, i) ==
    IF i >= Width(src) * Height(src) THEN dest
    ELSE LET sx == i % Width(src)
             sy == i \div Width(src)
         IN update_image_rect(SetPixel(dest, pos[1] + sx, pos[2] + sy, Pixel(src, sx, sy)),
                              pos, src, i + 1)

\* The loop up to the iteration whose dest[(x + sx, y + sy)] fails the index
\* assertion: dest is borrowed mutably, so it keeps the pixels written before
\* the panic.
RECURSIVE update_image_rect_until_panic(_, _, _, _)
update_image_rect_until_panic(dest, pos, src, i) ==
    IF i >= Width(src) * Height(src) THEN dest
    ELSE LET sx == i % Width(src)
             sy == i \div Width(src)
         IN IF InImage(dest, pos[1] + sx, pos[2] + sy)
            THEN update_image_rect_until_panic(
                     SetPixel(dest, pos[1] + sx, pos[2] + sy, Pixel(src, sx, sy)),
                     pos, src, i + 1)
            ELSE dest

\* Whether every dest[(x + sx, y + sy)] of the loop passes the index assertion.
RectInBounds(dest, pos, src) ==
    \A sx \in 0 .. (Width(src) - 1), sy \in 0 .. (Height(src) - 1) :
        InImage(dest, pos[1] + sx, pos[2] + sy)

\* egui_node::color_image_as_bevy_image: a bevy Image of the same size whose
\* data are the pixels of the colour image.
color_image_as_bevy_image(color_image) ==
    [size |-> color_image.size, data |-> color_image.pixels]

(***************************************************************************)
(* update_egui_textures_system, one entry of one target's `set` list.      *)
(* st = [textures, assets, next, warnings, panicked].                      *)
(***************************************************************************)
\* Mutant of the partial update: the stored image is patched and the handle
\* is left on the asset uploaded before.
PartialUpdate_keeps_asset(st, entity, texture_id, pos, color_image) ==
    IF <<entity, texture_id>> \in DOMAIN st.textures
    THEN IF RectInBounds(st.textures[<<entity, texture_id>>].color_image, pos, color_image)
         THEN [st EXCEPT
                 !.textures[<<entity, texture_id>>].color_image =
                     update_image_rect(@, pos, color_image, 0)]
         ELSE [st EXCEPT !.panicked = TRUE]
    ELSE [st EXCEPT !.warnings = @ + 1]

\* Mutant of the partial update: a patch of a missing texture creates it.
PartialUpdate_creates(st, entity, texture_id, pos, color_image) ==
    IF <<entity, texture_id>> \in DOMAIN st.textures
    THEN st
    ELSE [st EXCEPT
            !.textures = MapInsert(@, <<entity, texture_id>>,
                                   [handle |-> st.next, color_image |-> color_image]),
            !.assets = MapInsert(@, st.next, color_image_as_bevy_image(color_image)),
            !.next = @ + 1]

PartialUpdate(st, entity, texture_id, pos, color_image) ==
    IF <<entity, texture_id>> \in DOMAIN st.textures
    THEN IF RectInBounds(st.textures[<<entity, texture_id>>].color_image, pos, color_image)
         THEN LET patched == update_image_rect(
                                 st.textures[<<entity, texture_id>>].color_image,
                                 pos, color_image, 0)
              IN [st EXCEPT
                    !.textures[<<entity, texture_id>>] =
                        [handle |-> st.next, color_image |-> patched],
                    !.assets = MapInsert(@, st.next, color_image_as_bevy_image(patched)),
                    !.next = @ + 1]
         ELSE [st EXCEPT
                 !.textures[<<entity, texture_id>>].color_image =
                     update_image_rect_until_panic(@, pos, color_image, 0),
                 !.panicked = TRUE]
    ELSE [st EXCEPT !.warnings = @ + 1]

\* Mutant of the full update: an existing texture is kept.
FullUpdate_keeps_existing(st, entity, texture_id, color_image) ==
    IF <<entity, texture_id>> \in DOMAIN st.textures
    THEN [st EXCEPT !.assets = MapInsert(@, st.next, color_image_as_bevy_image(color_image)),
                    !.next = @ + 1]
    ELSE [st EXCEPT
            !.textures = MapInsert(@, <<entity, texture_id>>,
                                   [handle |-> st.next, color_image |-> color_image]),
            !.assets = MapInsert(@, st.next, color_image_as_bevy_image(color_image)),
            !.next = @ + 1]

FullUpdate(st, entity, texture_id, color_image) ==
    [st EXCEPT
        !.textures = MapInsert(@, <<entity, texture_id>>,
                               [handle |-> st.next, color_image |-> color_image]),
        !.assets = MapInsert(@, st.next, color_image_as_bevy_image(color_image)),
        !.next = @ + 1]

\* Mutant of the entry: the texture is looked up by its id alone, under the
\* first entity.
ApplySetEntry_any_target(st, entity, entry) ==
    IF entry.id[1] = "User" THEN st
    ELSE IF entry.pos # None
         THEN PartialUpdate(st, <<0, 0>>, entry.id[2], entry.pos[1], entry.image)
         ELSE FullUpdate(st, <<0, 0>>, entry.id[2], entry.image)

\* Mutant of the entry: the number of a user id is taken for a managed one.
ApplySetEntry_user_as_managed(st, entity, entry) ==
    IF entry.pos # None
    THEN PartialUpdate(st, entity, entry.id[2], entry.pos[1], entry.image)
    ELSE FullUpdate(st, entity, entry.id[2], entry.image)

\* One (texture_id, image_delta) of the loop: a user id is passed over, a
\* delta with a position is a partial update, one without a full update.
ApplySetEntry(st, entity, entry) ==
    IF entry.id[1] = "User" THEN st
    ELSE IF entry.pos # None
         THEN PartialUpdate(st, entity, entry.id[2], entry.pos[1], entry.image)
         ELSE FullUpdate(st, entity, entry.id[2], entry.image)

\* Mutant of the loop: the entries are taken from the end of the list.
RECURSIVE ApplySet_last_first(_, _, _)
ApplySet_last_first(st, entity, entries) ==
    IF entries = <<>> \/ st.panicked THEN st
    ELSE ApplySet_last_first(ApplySetEntry(st, entity, entries[Len(entries)]), entity,
                             SubSeq(entries, 1, Len(entries) - 1))

\* for (texture_id, image_delta) in set_textures { ... }; a panic ends the loop.
RECURSIVE ApplySet(_, _, _)
ApplySet(st, entity, entries) ==
    IF entries = <<>> \/ st.panicked THEN st
    ELSE ApplySet(ApplySetEntry(st, entity, Head(entries)), entity, Tail(entries))

\* Mutant of the take: the list is read and left in the render output.
TakeSet_leaves_list(outputs, entity) == outputs

\* std::mem::take(&mut egui_render_output.textures_delta.set): the target's
\* list is moved out and an empty one left.
TakeSet(outputs, entity) == [outputs EXCEPT ![entity].set = <<>>]

\* std::mem::take(&mut egui_render_output.textures_delta.free), likewise.
TakeFree(outputs, entity) == [outputs EXCEPT ![entity].free = <<>>]

\* The outer loop, over the targets in the order the query yields them
\* (st.outputs are the render outputs): a target's list is taken, then
\* applied.  A panic ends the system: the targets the query would have
\* yielded later keep their lists.
RECURSIVE UpdateTargets(_, _)
UpdateTargets(st, order) ==
    IF order = <<>> \/ st.panicked THEN st
    ELSE LET e == Head(order)
         IN UpdateTargets(ApplySet([st EXCEPT !.outputs = TakeSet(@, e)], e,
                                   st.outputs[e].set),
                          Tail(order))

(***************************************************************************)
(* free_egui_textures_system, the `free` list of one target.               *)
(* st = [textures, assets, removed].                                       *)
(***************************************************************************)
\* Mutant of the free loop: the entry goes, its image asset stays.
FreeOne_keeps_asset(st, entity, texture_id) ==
    IF texture_id[1] = "Managed"
    THEN [st EXCEPT !.textures = MapRemove(@, <<entity, texture_id[2]>>)]
    ELSE st

FreeOne(st, entity, texture_id) ==
    IF texture_id[1] = "Managed"
    THEN IF <<entity, texture_id[2]>> \in DOMAIN st.textures
         THEN LET handle == st.textures[<<entity, texture_id[2]>>].handle
              IN [st EXCEPT
                    !.textures = MapRemove(@, <<entity, texture_id[2]>>),
                    !.assets = MapRemove(@, handle),
                    !.removed = IF handle \in DOMAIN st.assets
                                THEN @ \cup {handle} ELSE @]
         ELSE st
    ELSE st

RECURSIVE ApplyFree(_, _, _)
ApplyFree(st, entity, ids) ==
    IF ids = <<>> THEN st
    ELSE ApplyFree(FreeOne(st, entity, Head(ids)), entity, Tail(ids))

\* The outer loop, over the targets in the order the query yields them.
RECURSIVE FreeTargets(_, _)
FreeTargets(st, order) ==
    IF order = <<>> THEN st
    ELSE LET e == Head(order)
         IN FreeTargets(ApplyFree([st EXCEPT !.outputs = TakeFree(@, e)], e,
                                  st.outputs[e].free),
                        Tail(order))

(***************************************************************************)
(* The render world's view of the textures (render_systems.rs).            *)
(***************************************************************************)
\* Mutant of the extraction: the textures are keyed by their id alone, as
\* textures of the first entity.
extract_resource_by_id(source) ==
    [k \in {<<<<0, 0>>, x[2]>> : x \in DOMAIN source} |->
        source[CHOOSE x \in DOMAIN source : x[2] = k[2]].handle]

\* Self(source.iter().map(|(k, v)| (*k, v.handle.clone())).collect())
extract_resource(source) == [k \in DOMAIN source |-> source[k].handle]

\* EguiTextureId::Managed(MainEntity, u64)
ManagedId(entity, id) == <<"Managed", entity, id>>

\* Mutant of the user id: it is a managed id of the first target.
UserId_as_managed(id) == <<"Managed", <<0, 0>>, id>>

\* EguiTextureId::User(u64)
UserId(id) == <<"User", id>>

\* ExtractedEguiTextures::handles: (EguiTextureId, AssetId<Image>) pairs.
handles(egui_textures, user_textures) ==
    {<<ManagedId(k[1], k[2]), egui_textures[k]>> : k \in DOMAIN egui_textures}
        \cup {<<UserId(user_textures.textures[h]), h>> : h \in DOMAIN user_textures.textures}

\* The textures queue_bind_groups_system skips: their image has no
\* GpuImage.
SkippedTextures(egui_textures, user_textures, gpu) ==
    {p[1] : p \in {q \in handles(egui_textures, user_textures) : q[2] \notin gpu}}

\* Mutant of the queuing: a texture whose image has no GpuImage is not
\* skipped.
QueuedBindGroups_unresolved(egui_textures, user_textures, gpu) ==
    {p[1] : p \in handles(egui_textures, user_textures)}

\* queue_bind_groups_system: filter_map over handles(), keeping the ids whose
\* image has a GpuImage; the collected map replaces the resource.
QueuedBindGroups(egui_textures, user_textures, gpu) ==
    {p[1] : p \in {q \in handles(egui_textures, user_textures) : q[2] \in gpu}}

(***************************************************************************)
(* The render graph (bevy_render::render_graph::RenderGraph), as far as    *)
(* the node systems use it: nodes by label, each with the edges recorded   *)
(* at it.  An edge is <<output node, input node>> and is recorded at both  *)
(* of its ends.                                                            *)
(***************************************************************************)
CameraDriverLabel == <<"CameraDriver">>

\* Mutant of the window label: the generation is not part of it.
from_window_entity_any_generation(entity) == <<entity[1], 0, "Window">>

\* EguiPass { entity_index, entity_generation, render_target_type }
from_window_entity(entity) == <<entity[1], entity[2], "Window">>

\* EguiPass::from_render_to_image_entity
from_render_to_image_entity(entity) == <<entity[1], entity[2], "Image">>

NoEdges == [input |-> {}, output |-> {}]

\* RenderGraph::add_node: HashMap::insert of a fresh NodeState (no edges),
\* which replaces a node already stored under the label.
add_node(graph, label) == MapInsert(graph, label, NoEdges)

\* RenderGraph::try_add_node_edge: the edge is recorded at the output node
\* and then at the input node; a node that is missing or records the edge
\* already is an error, and what was recorded before the error stays.
try_add_node_edge(graph, output_node, input_node) ==
    LET edge == <<output_node, input_node>> IN
    IF output_node \notin DOMAIN graph THEN [graph |-> graph, ok |-> FALSE]
    ELSE IF edge \in graph[output_node].output THEN [graph |-> graph, ok |-> FALSE]
    ELSE LET g1 == [graph EXCEPT ![output_node].output = @ \cup {edge}] IN
         IF input_node \notin DOMAIN g1 THEN [graph |-> g1, ok |-> FALSE]
         ELSE IF edge \in g1[input_node].input THEN [graph |-> g1, ok |-> FALSE]
         ELSE [graph |-> [g1 EXCEPT ![input_node].input = @ \cup {edge}], ok |-> TRUE]

\* RenderGraph::remove_node: removes the node, if there is one under the
\* label, and its edges from the nodes at their other ends; an edge missing
\* there is the only error.
remove_node(graph, label) ==
    IF label \notin DOMAIN graph THEN [graph |-> graph, ok |-> TRUE]
    ELSE LET state == graph[label]
             rest == MapRemove(graph, label)
             cleaned == [l \in DOMAIN rest |->
                            [input |-> rest[l].input \ state.output,
                             output |-> rest[l].output \ state.input]]
         IN [graph |-> cleaned,
             ok |-> /\ \A edge \in state.input :
                          edge[1] \in DOMAIN rest => edge \in rest[edge[1]].output
                    /\ \A edge \in state.output :
                          edge[2] \in DOMAIN rest => edge \in rest[edge[2]].input]

\* The body of setup_new_window_nodes_system's loop: add_node, then
\* add_node_edge(CameraDriverLabel, egui_pass), which unwraps.
SetupWindowNode(st, window_entity) ==
    LET egui_pass == from_window_entity(window_entity)
        r == try_add_node_edge(add_node(st.graph, egui_pass), CameraDriverLabel, egui_pass)
    IN [graph |-> r.graph, panicked |-> st.panicked \/ ~r.ok, logged |-> st.logged]

\* Mutant of the image setup: the edge runs from the camera driver to the node.
SetupImageNode_after_camera(st, entity) ==
    LET egui_pass == from_render_to_image_entity(entity)
        r == try_add_node_edge(add_node(st.graph, egui_pass), CameraDriverLabel, egui_pass)
    IN [graph |-> r.graph, panicked |-> st.panicked \/ ~r.ok, logged |-> st.logged]

\* The body of setup_new_render_to_image_nodes_system's loop: add_node, then
\* add_node_edge(egui_pass, CameraDriverLabel), which unwraps.
SetupImageNode(st, entity) ==
    LET egui_pass == from_render_to_image_entity(entity)
        r == try_add_node_edge(add_node(st.graph, egui_pass), egui_pass, CameraDriverLabel)
    IN [graph |-> r.graph, panicked |-> st.panicked \/ ~r.ok, logged |-> st.logged]

\* Mutant of the window teardown: it removes the node of the image target.
TeardownWindowNode_wrong_kind(st, window_entity) ==
    LET r == remove_node(st.graph, from_render_to_image_entity(window_entity))
    IN [graph |-> r.graph, panicked |-> st.panicked,
        logged |-> IF r.ok THEN st.logged ELSE st.logged + 1]

\* The body of teardown_window_nodes_system's loop: an Err is logged only.
TeardownWindowNode(st, window_entity) ==
    LET r == remove_node(st.graph, from_window_entity(window_entity))
    IN [graph |-> r.graph, panicked |-> st.panicked,
        logged |-> IF r.ok THEN st.logged ELSE st.logged + 1]

\* The body of teardown_render_to_image_nodes_system's loop.
TeardownImageNode(st, entity) ==
    LET r == remove_node(st.graph, from_render_to_image_entity(entity))
    IN [graph |-> r.graph, panicked |-> st.panicked,
        logged |-> IF r.ok THEN st.logged ELSE st.logged + 1]

\* The body of the loop of a node system.
LoopBody(system, st, entity) ==
    CASE system = "setup_new_window_nodes_system" -> SetupWindowNode(st, entity)
      [] system = "teardown_window_nodes_system" -> TeardownWindowNode(st, entity)
      [] system = "setup_new_render_to_image_nodes_system" -> SetupImageNode(st, entity)
      [] system = "teardown_render_to_image_nodes_system" -> TeardownImageNode(st, entity)

\* A system's loop over the entities its query or event reader yields, in
\* the order it yields them; a panic ends it.
RECURSIVE ForEach(_, _, _)
ForEach(system, st, order) ==
    IF order = <<>> \/ st.panicked THEN st
    ELSE ForEach(system, LoopBody(system, st, Head(order)), Tail(order))

(***************************************************************************)
(* The transform of a target.  An f32 is NaN, an infinity or a zero with   *)
(* its sign, or a normal number m * 2^e with 2^23 <= m < 2^24 and its      *)
(* sign; a division rounds to the nearest such number, ties to the even    *)
(* mantissa.  The sizes and factors explored keep every quotient in the    *)
(* range of the normal numbers.                                            *)
(***************************************************************************)
NaN == [class |-> "nan"]
Infinity(neg) == [class |-> "inf", neg |-> neg]
Zero(neg) == [class |-> "zero", neg |-> neg]
Finite(neg, m, e) == [class |-> "finite", neg |-> neg, m |-> m, e |-> e]

Magnitude(n) == IF n < 0 THEN 0 - n ELSE n

\* 2^23 and 2^24: the mantissa of a normal f32 has 24 bits.
MantissaLow == 8388608
MantissaHigh == 16777216

RECURSIVE Normalised(_, _)
Normalised(m, e) == IF m >= MantissaLow THEN <<m, e>> ELSE Normalised(2 * m, e - 1)

\* The f32 of an integer literal (of magnitude below 2^24).
F32(n) ==
    IF n = 0 THEN Zero(FALSE)
    ELSE LET p == Normalised(Magnitude(n), 0) IN Finite(n < 0, p[1], p[2])

\* bits more binary digits of rem / den, after the digits acc: the digits
\* and the remainder that is left.
RECURSIVE DivBits(_, _, _, _)
DivBits(rem, den, bits, acc) ==
    IF bits = 0 THEN <<acc, rem>>
    ELSE IF 2 * rem >= den THEN DivBits(2 * rem - den, den, bits - 1, 2 * acc + 1)
    ELSE DivBits(2 * rem, den, bits - 1, 2 * acc)

\* a / b of f32
F32Div(a, b) ==
    IF a.class = "nan" \/ b.class = "nan" THEN NaN
    ELSE IF a.class = b.class /\ a.class \in {"zero", "inf"} THEN NaN
    ELSE IF a.class = "inf" \/ b.class = "zero" THEN Infinity(a.neg # b.neg)
    ELSE IF a.class = "zero" \/ b.class = "inf" THEN Zero(a.neg # b.neg)
    ELSE LET shift == IF a.m >= b.m THEN 0 ELSE 1
             first == IF shift = 0 THEN a.m - b.m ELSE 2 * a.m - b.m
             d == DivBits(first, b.m, 23, 1)
             up == 2 * d[2] > b.m \/ (2 * d[2] = b.m /\ d[1] % 2 = 1)
             m == IF up THEN d[1] + 1 ELSE d[1]
             e == a.e - b.e - 23 - shift
         IN IF m = MantissaHigh THEN Finite(a.neg # b.neg, MantissaLow, e + 1)
            ELSE Finite(a.neg # b.neg, m, e)

\* RenderTargetSize::default(): the f32 fields are 0.0.
DefaultRenderTargetSize ==
    [physical_width |-> Zero(FALSE), physical_height |-> Zero(FALSE),
     scale_factor |-> Zero(FALSE)]

\* Mutant of RenderTargetSize::width: the physical width.
width_physical(self) == self.physical_width

\* RenderTargetSize::width
width(self) == F32Div(self.physical_width, self.scale_factor)

\* RenderTargetSize::height
height(self) == F32Div(self.physical_height, self.scale_factor)

\* EguiTransform::from_render_target_size
from_render_target_size(size, scale_factor) ==
    [scale |-> <<F32Div(F32(2), F32Div(width(size), scale_factor)),
                 F32Div(F32(0 - 2), F32Div(height(size), scale_factor))>>,
     translation |-> <<F32(0 - 1), F32(1)>>]

(***************************************************************************)
(* IME transitions.  An item of EguiContextQuery is, for these two         *)
(* methods, the flag of its context and the events of its input.           *)
(***************************************************************************)
\* Mutant of ime_event_enable: the event is pushed on every call.
ime_event_enable_resends(self) ==
    [ctx |-> [has_sent_ime_enabled |-> TRUE],
     egui_input |-> [events |-> Append(self.egui_input.events, "Enabled")]]

ime_event_enable(self) ==
    IF ~self.ctx.has_sent_ime_enabled
    THEN [ctx |-> [has_sent_ime_enabled |-> TRUE],
          egui_input |-> [events |-> Append(self.egui_input.events, "Enabled")]]
    ELSE self

ime_event_disable(self) ==
    IF self.ctx.has_sent_ime_enabled
    THEN [ctx |-> [has_sent_ime_enabled |-> FALSE],
          egui_input |-> [events |-> Append(self.egui_input.events, "Disabled")]]
    ELSE self

\* The query item of a target.
EguiContextQueryItem(e) ==
    [ctx |-> [has_sent_ime_enabled |-> has_sent_ime_enabled[e]],
     egui_input |-> [events |-> egui_input_events[e]]]

(***************************************************************************)
(* Per-target state.  The setup systems queue the insertion of the state   *)
(* bundle for the entities their queries yield; apply_deferred applies the *)
(* queue in order.                                                         *)
(***************************************************************************)
\* Mutant of the query of setup_new_windows_system: no Without<EguiContext>.
NewWindowsQuery_any(added, contexts) == added

\* Query<Entity, (Added<Window>, Without<EguiContext>)>
NewWindowsQuery(added, contexts) == added \ DOMAIN contexts

\* Query<Entity, (Added<EguiRenderToImage>, Without<EguiContext>)>
NewRenderToImageQuery(added, contexts) == added \ DOMAIN contexts

\* commands.entity(e).insert(bundle) for every entity of the query, in the
\* order of the query.
QueueInserts(queue, order) == queue \o order

\* Applying the queue, command by command: an insert gives the entity the
\* default value of every component of the bundle, in place of a value it
\* has; the insert of an entity that is despawned by then panics, and the
\* commands after it are not applied.
RECURSIVE ApplyInserts(_, _, _)
ApplyInserts(contexts, queue, live) ==
    IF queue = <<>> THEN [contexts |-> contexts, panicked |-> FALSE]
    ELSE IF Head(queue) \notin live THEN [contexts |-> contexts, panicked |-> TRUE]
    ELSE ApplyInserts(MapInsert(contexts, Head(queue), "default"), Tail(queue), live)

\* The query of EguiContexts: the items (Entity, &mut EguiContext,
\* Option<&PrimaryWindow>) of the entities that pass EguiContextsFilter,
\* Or<(With<Window>, With<EguiRenderToImage>)>; the reference is the entity
\* whose component it borrows.
ContextsQuery(contexts, window_entities, image_entities, primary) ==
    {[window_entity |-> e, ctx |-> e, primary_window |-> e \in primary] :
        e \in DOMAIN contexts \cap (window_entities \cup image_entities)}

\* Mutant of try_ctx_mut: the context of any window.
try_ctx_mut_any_window(q) == IF q = <<>> THEN None ELSE Some(Head(q).ctx)

\* q.iter_mut().find_map(|(_, ctx, primary_window)| primary_window.is_some().then(ctx)),
\* over the items in the order the query yields them.
try_ctx_mut(q) ==
    LET IsPrimary(item) == item.primary_window
        found == SelectSeq(q, IsPrimary)
    IN IF found = <<>> THEN None ELSE Some(Head(found).ctx)

\* q.get_many_mut(ids): the contexts of the entities, or an error when an
\* entity is not in the query or is named twice.
ctx_for_entities_mut(q, ids) ==
    LET entities == {q[k].window_entity : k \in DOMAIN q}
    IN IF /\ \A i \in DOMAIN ids : ids[i] \in entities
          /\ \A i, j \in DOMAIN ids : i # j => ids[i] # ids[j]
       THEN [ok |-> TRUE, contexts |-> ids]
       ELSE [ok |-> FALSE, contexts |-> <<>>]

\* Mutant of try_ctx_for_entity_mut: the context of the first item.
try_ctx_for_entity_mut_first(q, entity) == IF q = <<>> THEN None ELSE Some(Head(q).ctx)

\* q.iter_mut().find_map(|(window_entity, ctx, _)| (window_entity == entity).then(ctx))
try_ctx_for_entity_mut(q, entity) ==
    LET IsEntity(item) == item.window_entity = entity
        found == SelectSeq(q, IsEntity)
    IN IF found = <<>> THEN None ELSE Some(Head(found).ctx)

\* Mutant of the clearing: the offsets stay.
ClearTransforms_keeps_offsets(transforms) == [transforms EXCEPT !.buffer = <<>>]

\* egui_transforms.buffer.clear(); egui_transforms.offsets.clear();
ClearTransforms(transforms) == [transforms EXCEPT !.buffer = <<>>, !.offsets = EmptyMap]

\* DynamicUniformBuffer::push returns the offset in bytes of the value it
\* adds: the values lie one aligned stride apart, which for the 16 bytes of
\* an EguiTransform is the alignment of dynamic uniform offsets.
TransformStride == 256

\* The loop of prepare_egui_transforms_system over the items (Option<&MainEntity>,
\* &EguiSettings, &RenderTargetSize) in the order the query yields them:
\* every item pushes its transform, and an item with a MainEntity records
\* the offset under it.
RECURSIVE PushTransforms(_, _)
PushTransforms(transforms, items) ==
    IF items = <<>> THEN transforms
    ELSE LET window_main == Head(items).window_main
             offset == Len(transforms.buffer) * TransformStride
             pushed == [transforms EXCEPT !.buffer =
                           Append(@, from_render_target_size(
                                         Head(items).size,
                                         Head(items).egui_settings.scale_factor))]
         IN PushTransforms(IF window_main = None THEN pushed
                           ELSE [pushed EXCEPT !.offsets =
                                    MapInsert(@, window_main[1], offset)],
                           Tail(items))

\* DynamicUniformBuffer::write_buffer: a buffer on the device is created when
\* the values do not fit the one there is (none has capacity 0), and it has
\* an id no buffer had before; otherwise the values are written to the
\* buffer there is.
write_buffer(transforms) ==
    LET capacity == IF transforms.gpu_buffer = None THEN 0
                    ELSE transforms.gpu_buffer[1].capacity
        id == IF transforms.gpu_buffer = None THEN 1 ELSE transforms.gpu_buffer[1].id + 1
    IN IF capacity < Len(transforms.buffer)
       THEN [transforms EXCEPT !.gpu_buffer = Some([id |-> id,
                                                    capacity |-> Len(transforms.buffer)])]
       ELSE transforms

\* Mutant of the bind-group step: a bind group is created in every run.
UpdateBindGroup_always_creates(transforms) ==
    IF transforms.gpu_buffer = None THEN transforms
    ELSE [transforms EXCEPT !.bind_group =
             Some([id |-> transforms.gpu_buffer[1].id,
                   serial |-> IF transforms.bind_group = None THEN 1
                              ELSE transforms.bind_group[1].serial + 1])]

\* if let Some(buffer) = buffer.buffer() { match bind_group { Some((id, _)) if
\* buffer.id() == id => {}, _ => bind_group = Some((buffer.id(), create_bind_group(..))) } }
\* The serial tells the bind groups the device has created apart.
UpdateBindGroup(transforms) ==
    IF transforms.gpu_buffer = None THEN transforms
    ELSE IF /\ transforms.bind_group # None
            /\ transforms.bind_group[1].id = transforms.gpu_buffer[1].id
         THEN transforms
         ELSE [transforms EXCEPT !.bind_group =
                  Some([id |-> transforms.gpu_buffer[1].id,
                        serial |-> IF transforms.bind_group = None THEN 1
                                   ELSE transforms.bind_group[1].serial + 1])]

(***************************************************************************)
(* Texture deltas the passes produce.                                      *)
(***************************************************************************)
ImgA == [size |-> <<3, 2>>, pixels |-> <<1, 2, 3, 4, 5, 6>>]
ImgB == [size |-> <<3, 2>>, pixels |-> <<0, 0, 0, 0, 0, 0>>]
SubWide == [size |-> <<2, 1>>, pixels |-> <<8, 9>>]
SubTall == [size |-> <<1, 2>>, pixels |-> <<8, 9>>]

TextureIds == {Managed(0), Managed(1), User(0)}

\* (image, pos) pairs: two full uploads, two patches that fit a 3x2 texture
\* and one that reaches past its right edge.
ImageDeltas ==
    {<<ImgA, None>>, <<ImgB, None>>,
     <<SubWide, Some(<<1, 1>>)>>, <<SubTall, Some(<<2, 0>>)>>,
     <<SubWide, Some(<<2, 0>>)>>}

SetEntries ==
    {[id |-> t, image |-> d[1], pos |-> d[2]] : t \in TextureIds, d \in ImageDeltas}

Targets == DOMAIN render_output

(***************************************************************************)
(* Initial state: App::init_resource of the Default resources.             *)
(***************************************************************************)
InitU ==
    /\ egui_user_textures = [textures |-> EmptyMap, last_texture_id |-> 0]
    /\ call = [op |-> "init", image |-> None]
    /\ ret = None
    /\ image_events = {}
    /\ lastId = [h \in Handles |-> None]
    /\ idsOf = [h \in Handles |-> {}]

InitT ==
    /\ render_output = EmptyMap
    /\ despawned = {}
    /\ egui_managed_textures = EmptyMap
    /\ image_assets = EmptyMap
    /\ next_asset = 0
    /\ warnings = 0
    /\ panicked = FALSE
    /\ extracted_managed = EmptyMap
    /\ extracted_user = [textures |-> EmptyMap, last_texture_id |-> 0]
    /\ gpu_images = {}
    /\ bind_groups = {}
    /\ render_commands = <<>>
    /\ phase = "pass"
    /\ emitted = 0

\* The step was no run of a teardown system.
NoLog == [system |-> "none", events |-> {}, errors |-> 0]

\* The render graph has the engine's nodes, of which the systems name the
\* camera driver; no window exists before the first main-world step.
InitG ==
    /\ alive = {}
    /\ next_gen = [i \in Indices |-> 0]
    /\ windows = {}
    /\ render_to_image = {}
    /\ primary_window = {}
    /\ synced = {}
    /\ added_window = {}
    /\ added_image = {}
    /\ removed_window = {}
    /\ removed_image = {}
    /\ render_graph = [l \in {CameraDriverLabel} |-> NoEdges]
    /\ pending = {}
    /\ removed_nodes = {}
    /\ teardown_log = NoLog
    /\ changes = 0
    /\ gphase = "settled"

\* EguiContext::default() and EguiInput::default() on every target.
InitI ==
    /\ has_sent_ime_enabled = [e \in TexEntities |-> FALSE]
    /\ egui_input_events = [e \in TexEntities |-> <<>>]
    /\ ime_sent = [e \in TexEntities |-> <<>>]
    /\ ime_call = [op |-> "none", target |-> None]

NoCall == [op |-> "none", entity |-> None]

\* No entity has a context, and the startup InitContexts chain has run on
\* the empty world; EguiTransforms::default().
InitC ==
    /\ egui_context = EmptyMap
    /\ new_windows = {}
    /\ new_images = {}
    /\ commands = <<>>
    /\ cphase = "initialised"
    /\ quiet = 0
    /\ ctx_call = NoCall
    /\ ctx_panicked = FALSE
    /\ extracted_targets = {}
    /\ render_only = FALSE
    /\ egui_transforms = [buffer |-> <<>>, offsets |-> EmptyMap, gpu_buffer |-> None,
                          bind_group |-> None]

(***************************************************************************)
(* The schedules.  A frame runs the main schedules in Main's order, then   *)
(* the extraction, then the Render schedule; within a schedule the         *)
(* executor runs the systems in any order that respects the orderings the  *)
(* plugin declared.  An ordering is a pair <<earlier, later>>.             *)
(***************************************************************************)
Schedules == <<"PreUpdate", "Update", "PostUpdate", "Last", "ExtractSchedule", "Render">>

\* The systems the plugin adds to each schedule, with the host's input
\* systems (the set InputSystem) and the run of the render graph, in which
\* the Egui nodes execute (RenderSet::Render).
SystemsOf(label) ==
    CASE label = "PreUpdate" ->
            {"InputSystem", "setup_new_windows_system", "setup_render_to_image_handles_system",
             "apply_deferred", "update_contexts_system", "process_input_system",
             "begin_pass_system"}
      [] label = "Update" -> {}
      [] label = "PostUpdate" ->
            {"end_pass_system", "process_output_system", "capture_pointer_input",
             "update_egui_textures_system"}
      [] label = "Last" -> {"free_egui_textures_system"}
      [] label = "ExtractSchedule" ->
            {"setup_new_window_nodes_system", "teardown_window_nodes_system",
             "setup_new_render_to_image_nodes_system",
             "teardown_render_to_image_nodes_system"}
      [] label = "Render" ->
            {"prepare_egui_transforms_system", "queue_bind_groups_system",
             "queue_pipelines_system", "render_graph"}

\* .in_set(..): the systems of each set.
InSet(set) ==
    CASE set = "InitContexts" ->
            {"setup_new_windows_system", "setup_render_to_image_handles_system",
             "apply_deferred", "update_contexts_system"}
      [] set = "InputSystem" -> {"InputSystem"}
      [] set = "ProcessInput" -> {"process_input_system"}
      [] set = "BeginPass" -> {"begin_pass_system"}
      [] set = "ProcessOutput" -> {"process_output_system"}
      [] set = "Prepare" -> {"prepare_egui_transforms_system"}
      [] set = "Queue" -> {"queue_bind_groups_system", "queue_pipelines_system"}
      [] set = "Render" -> {"render_graph"}

\* (a, b, ..).chain()
Chain(systems) == {<<systems[i], systems[i + 1]>> : i \in 1 .. (Len(systems) - 1)}

\* system.after(set) and system.before(set)
After(system, set) == {<<earlier, system>> : earlier \in InSet(set)}
Before(system, set) == {<<system, later>> : later \in InSet(set)}

\* Mutant of the PreUpdate orderings: begin_pass_system is not ordered.
PreUpdateOrder_pass_unordered ==
    Chain(<<"setup_new_windows_system", "setup_render_to_image_handles_system",
            "apply_deferred", "update_contexts_system">>)
        \cup After("process_input_system", "InputSystem")
        \cup After("process_input_system", "InitContexts")

PreUpdateOrder ==
    Chain(<<"setup_new_windows_system", "setup_render_to_image_handles_system",
            "apply_deferred", "update_contexts_system">>)
        \cup After("process_input_system", "InputSystem")
        \cup After("process_input_system", "InitContexts")
        \cup After("begin_pass_system", "ProcessInput")

\* Mutant of the PostUpdate orderings: the texture upload is not ordered.
PostUpdateOrder_upload_unordered ==
    Before("end_pass_system", "ProcessOutput")

PostUpdateOrder ==
    Before("end_pass_system", "ProcessOutput")
        \cup After("update_egui_textures_system", "ProcessOutput")

\* Mutant of the Render orderings: the graph does not wait for the Queue set.
RenderOrder_queue_unordered ==
    {<<earlier, later>> : earlier \in InSet("Prepare"), later \in InSet("Render")}

\* The Render schedule runs its sets Prepare and Queue before its set
\* Render; the order of Prepare and Queue is left open here.
RenderOrder ==
    {<<earlier, later>> : earlier \in InSet("Prepare") \cup InSet("Queue"),
                          later \in InSet("Render")}

\* The systems that must have run before the system may.
MustPrecede(system) ==
    {o[1] : o \in {p \in PreUpdateOrder \cup PostUpdateOrder \cup RenderOrder :
                      p[2] = system}}

\* The outputs that are at the one place move to the other, for the targets
\* the system's query yields.
MoveOutput(outputs, targets, from, to) ==
    [e \in DOMAIN outputs |->
        IF e \in targets /\ outputs[e] = from THEN to ELSE outputs[e]]

\* The first frame starts after the startup schedules.
InitS ==
    /\ schedule = 1
    /\ done = {}
    /\ input_processed = {}
    /\ output_at = EmptyMap

(***************************************************************************)
(* The inputs of the transform of one target.                              *)
(***************************************************************************)
\* The physical sizes and the scale factors of the targets explored.
PhysicalSizes == {F32(n) : n \in {1, 3, 600, 800}}
ScaleFactors == {F32Div(F32(n), F32(d)) : n \in 1 .. MaxFactor, d \in 1 .. 2}

\* RenderTargetSize::default() and the scale factor of EguiSettings::default();
\* no transform is computed.
InitM ==
    /\ render_target_size = DefaultRenderTargetSize
    /\ egui_scale_factor = F32(1)
    /\ egui_transform = None

\* A target with any of the sizes and factors; its transform is not yet
\* computed.
TransformInputs ==
    /\ render_target_size \in [physical_width : PhysicalSizes,
                                physical_height : PhysicalSizes,
                                scale_factor : ScaleFactors]
    /\ egui_scale_factor \in ScaleFactors
    /\ egui_transform = None

\* No window and no image target is extracted, nothing is specialized.
InitP ==
    /\ extracted_windows = EmptyMap
    /\ image_targets = EmptyMap
    /\ specialized_pipelines = EmptyMap
    /\ egui_pipelines = EmptyMap
    /\ pphase = "pass"
    /\ queue_log = [skipped_textures |-> {}, healed_textures |-> {},
                    skipped_targets |-> {}, healed_targets |-> {}]

\* App::new(): no plugin is added yet.
NoSystems == [label \in {} |-> {}]
InitA ==
    app = [render_app |-> FALSE, stage |-> "new",
           main_resources |-> {}, render_resources |-> {},
           main_systems |-> NoSystems, render_systems |-> NoSystems,
           schedule |-> 0, ran |-> {}, skipped |-> {}, started |-> FALSE,
           updated |-> FALSE, panicked |-> FALSE]

Init == InitU /\ InitT /\ InitG /\ InitI /\ InitC /\ InitS /\ InitM /\ InitP /\ InitA

(***************************************************************************)
(* Operations on the registry, as host code calls them through             *)
(* EguiContexts::add_image / remove_image / image_id.                      *)
(***************************************************************************)
CallAddImage(h) ==
    /\ h \in DOMAIN egui_user_textures.textures
           \/ egui_user_textures.last_texture_id < MaxUserIds
    /\ LET r == add_image(egui_user_textures, h) IN
        /\ egui_user_textures' = r.self
        /\ ret' = r.ret
        /\ lastId' = [lastId EXCEPT ![h] = Some(r.ret)]
        /\ idsOf' = IF h \in DOMAIN egui_user_textures.textures
                     THEN idsOf ELSE [idsOf EXCEPT ![h] = @ \cup {r.ret[2]}]
    /\ call' = [op |-> "add_image", image |-> h]
    /\ UNCHANGED <<image_events, varsT, varsG, varsX>>

CallRemoveImage(h) ==
    /\ LET r == remove_image(egui_user_textures, h) IN
        /\ egui_user_textures' = r.self
        /\ ret' = r.ret
    /\ call' = [op |-> "remove_image", image |-> h]
    /\ UNCHANGED <<image_events, lastId, idsOf, varsT, varsG, varsX>>

CallImageId(h) ==
    /\ ret' = image_id(egui_user_textures, h)
    /\ call' = [op |-> "image_id", image |-> h]
    /\ UNCHANGED <<egui_user_textures, image_events, lastId, idsOf, varsT, varsG, varsX>>

\* An image asset is deleted from Assets<Image>: AssetEvent::Removed { id }.
AssetRemoved(h) ==
    /\ h \notin image_events
    /\ image_events' = image_events \cup {h}
    /\ call' = [op |-> "asset_removed", image |-> h]
    /\ ret' = None
    /\ UNCHANGED <<egui_user_textures, lastId, idsOf, varsT, varsG, varsX>>

\* free_egui_textures_system: every target's free list is taken and applied,
\* then remove_image runs for every AssetEvent::Removed read.  The events of
\* the assets this run removes are read by the next run.
FreeEguiTextures ==
    \E order \in Orders(Targets) :
    LET st == FreeTargets([textures |-> egui_managed_textures,
                           assets |-> image_assets,
                           removed |-> {},
                           outputs |-> render_output],
                          order)
    IN /\ egui_managed_textures' = st.textures
       /\ image_assets' = st.assets
       /\ render_output' = st.outputs
       /\ egui_user_textures' = RemoveAll(egui_user_textures, image_events)
       /\ image_events' = st.removed
       /\ ret' = None
       /\ UNCHANGED <<lastId, idsOf>>

\* What a run of free_egui_textures_system does to the state.
FreeTextures ==
    /\ FreeEguiTextures
    /\ call' = [op |-> "free_egui_textures_system", image |-> None,
                events |-> image_events,
                removed |-> image_events \cap DOMAIN egui_user_textures.textures]
    /\ UNCHANGED <<despawned, next_asset, warnings, panicked, extracted_managed,
                   extracted_user, gpu_images, bind_groups, render_commands, emitted,
                   varsG, varsI, varsC, varsL>>

\* The system as the registry sees it: it runs once per frame, in Last.
free_egui_textures_system_run ==
    /\ FreeTextures
    /\ UNCHANGED <<phase, varsS>>

NextU ==
    \/ \E h \in Handles : CallAddImage(h)
    \/ \E h \in Handles : CallRemoveImage(h)
    \/ \E h \in Handles : CallImageId(h)
    \/ \E h \in Handles : AssetRemoved(h)
    \/ free_egui_textures_system_run

SpecUserTextures == Init /\ [][NextU]_vars

(***************************************************************************)
(* The frame of the texture manager.  A frame is: the passes and whatever  *)
(* else the main world does ("pass"), update_egui_textures_system in       *)
(* PostUpdate, free_egui_textures_system in Last, the extraction to the    *)
(* render world, and queue_bind_groups_system in the Queue set.            *)
(***************************************************************************)
NoDelta == [set |-> <<>>, free |-> <<>>]

\* A render target comes to exist: an entity that the systems' query
\* (Entity, &mut EguiRenderOutput), Or<(With<Window>, With<EguiRenderToImage>)>
\* matches, with the default (empty) render output.
SpawnTarget(e) ==
    /\ phase = "pass" /\ ~panicked
    /\ e \notin Targets \cup despawned
    /\ render_output' = MapInsert(render_output, e, NoDelta)
    /\ UNCHANGED <<despawned, egui_managed_textures, image_assets, next_asset, warnings,
                   panicked, extracted_managed, extracted_user, gpu_images, bind_groups,
                   render_commands,
                   phase, emitted, varsU, varsG, varsX>>

\* The target's entity is despawned; no later entity has its (index, generation).
DespawnTarget(e) ==
    /\ phase = "pass" /\ ~panicked
    /\ e \in Targets
    /\ render_output' = MapRemove(render_output, e)
    /\ despawned' = despawned \cup {e}
    /\ UNCHANGED <<egui_managed_textures, image_assets, next_asset, warnings,
                   panicked, extracted_managed, extracted_user, gpu_images, bind_groups,
                   render_commands,
                   phase, emitted, varsU, varsG, varsX>>

\* The pass of target e ends with one more entry in textures_delta.set.
WriteSet(e, entry) ==
    /\ phase = "pass" /\ ~panicked
    /\ e \in Targets
    /\ emitted < MaxEntries
    /\ render_output' = [render_output EXCEPT ![e].set = Append(@, entry)]
    /\ emitted' = emitted + 1
    /\ UNCHANGED <<despawned, egui_managed_textures, image_assets, next_asset, warnings,
                   panicked, extracted_managed, extracted_user, gpu_images, bind_groups,
                   render_commands,
                   phase, varsU, varsG, varsX>>

\* The pass of target e ends with one more id in textures_delta.free.
WriteFree(e, texture_id) ==
    /\ phase = "pass" /\ ~panicked
    /\ e \in Targets
    /\ emitted < MaxEntries
    /\ render_output' = [render_output EXCEPT ![e].free = Append(@, texture_id)]
    /\ emitted' = emitted + 1
    /\ UNCHANGED <<despawned, egui_managed_textures, image_assets, next_asset, warnings,
                   panicked, extracted_managed, extracted_user, gpu_images, bind_groups,
                   render_commands,
                   phase, varsU, varsG, varsX>>

\* What a run of update_egui_textures_system does to the state.
UpdateTextures ==
    /\ \E order \in Orders(Targets) :
       LET st == UpdateTargets([textures |-> egui_managed_textures,
                                assets |-> image_assets,
                                next |-> next_asset,
                                warnings |-> 0,
                                panicked |-> FALSE,
                                outputs |-> render_output],
                               order)
       IN /\ egui_managed_textures' = st.textures
          /\ image_assets' = st.assets
          /\ next_asset' = st.next
          /\ warnings' = st.warnings
          /\ panicked' = st.panicked
          /\ render_output' = st.outputs
    /\ UNCHANGED <<despawned, extracted_managed, extracted_user, gpu_images, bind_groups,
                   render_commands, emitted, varsU, varsG, varsI, varsC, varsL>>

update_egui_textures_system ==
    /\ phase = "pass" /\ ~panicked
    /\ UpdateTextures
    /\ phase' = "last"
    /\ UNCHANGED varsS

free_egui_textures_system ==
    /\ phase = "last" /\ ~panicked
    /\ FreeTextures
    /\ phase' = "extract"
    /\ UNCHANGED varsS

\* The extraction: ExtractResourcePlugin copies EguiManagedTextures (through
\* extract_resource) and EguiUserTextures to the render world, and the render
\* world's image assets are prepared: the images removed lose their GpuImage,
\* and the new ones are either all uploaded in this frame or not yet.
ExtractResources ==
    /\ extracted_managed' = extract_resource(egui_managed_textures)
    /\ extracted_user' = egui_user_textures
    /\ gpu_images' \in {gpu_images \cap DOMAIN image_assets, DOMAIN image_assets}
    /\ UNCHANGED <<render_output, despawned, egui_managed_textures, image_assets,
                   next_asset, warnings, panicked, bind_groups, render_commands, emitted,
                   varsU, varsG, varsI, varsC, varsL>>

ExtractTextures ==
    /\ phase = "extract" /\ ~panicked
    /\ ExtractResources
    /\ phase' = "queue"
    /\ UNCHANGED varsS

\* The map queue_bind_groups_system builds in a run now.
NewBindGroups == QueuedBindGroups(extracted_managed, extracted_user, gpu_images)

\* What a run of queue_bind_groups_system does to the state: it ends with
\* commands.insert_resource(EguiTextureBindGroups(bind_groups)), which queues
\* the map it built.
QueueBindGroups ==
    /\ render_commands' = Append(render_commands,
                                 [resource |-> "EguiTextureBindGroups",
                                  value |-> NewBindGroups])
    /\ queue_log' = [queue_log EXCEPT
          !.skipped_textures = SkippedTextures(extracted_managed, extracted_user, gpu_images),
          !.healed_textures = queue_log.skipped_textures \cap NewBindGroups]
    /\ UNCHANGED <<render_output, despawned, egui_managed_textures, image_assets,
                   next_asset, warnings, panicked, extracted_managed, extracted_user,
                   gpu_images, bind_groups, emitted, varsU, varsG, varsI, varsC, varsM,
                   varsA, extracted_windows, image_targets, specialized_pipelines,
                   egui_pipelines, pphase>>

queue_bind_groups_system ==
    /\ phase = "queue" /\ ~panicked
    /\ QueueBindGroups
    /\ phase' = "queued"
    /\ UNCHANGED varsS

\* The command queue of the render world is applied, command by command:
\* insert_resource puts its value in the place of the resource.
RECURSIVE InsertResources(_, _)
InsertResources(resources, queue) ==
    IF queue = <<>> THEN resources
    ELSE InsertResources([resources EXCEPT ![Head(queue).resource] = Head(queue).value],
                         Tail(queue))

\* The executor applies the commands the queue systems have left, before the
\* render graph runs.
ApplyCommands ==
    /\ render_commands # <<>>
    /\ LET resources == InsertResources([EguiTextureBindGroups |-> bind_groups,
                                         EguiPipelines |-> egui_pipelines],
                                        render_commands)
       IN /\ bind_groups' = resources.EguiTextureBindGroups
          /\ egui_pipelines' = resources.EguiPipelines
    /\ render_commands' = <<>>
    /\ UNCHANGED <<render_output, despawned, egui_managed_textures, image_assets,
                   next_asset, warnings, panicked, extracted_managed, extracted_user,
                   gpu_images, emitted, varsU, varsG, varsI, varsC, varsM, varsA,
                   extracted_windows, image_targets, specialized_pipelines, queue_log>>

ApplyRenderCommands ==
    /\ ~panicked
    /\ ApplyCommands
    /\ phase' = (IF phase = "queued" THEN "pass" ELSE phase)
    /\ pphase' = (IF pphase = "queued" THEN "pass" ELSE pphase)
    /\ UNCHANGED varsS

NextT ==
    \/ \E e \in TexEntities : SpawnTarget(e)
    \/ \E e \in TexEntities : DespawnTarget(e)
    \/ \E e \in TexEntities, entry \in SetEntries : WriteSet(e, entry)
    \/ \E e \in TexEntities, t \in TextureIds : WriteFree(e, t)
    \/ update_egui_textures_system
    \/ free_egui_textures_system
    \/ ExtractTextures
    \/ queue_bind_groups_system
    \/ ApplyRenderCommands

SpecTextures == Init /\ [][NextT]_vars

(***************************************************************************)
(* Frames of one target whose deltas carry entries with user ids, in an    *)
(* app whose host code registers its own images with the registry.  The    *)
(* host's images are loaded before the first frame: their assets have the  *)
(* ids of Handles, and the images the texture manager adds get the ids     *)
(* after them.                                                             *)
(***************************************************************************)
InitDeltas ==
    /\ InitU /\ InitG /\ InitI /\ InitC /\ InitS /\ InitM /\ InitP /\ InitA
    /\ render_output = EmptyMap
    /\ despawned = {}
    /\ egui_managed_textures = EmptyMap
    /\ image_assets = EmptyMap
    /\ next_asset = NumHandles
    /\ warnings = 0
    /\ panicked = FALSE
    /\ extracted_managed = EmptyMap
    /\ extracted_user = [textures |-> EmptyMap, last_texture_id |-> 0]
    /\ gpu_images = {}
    /\ bind_groups = {}
    /\ render_commands = <<>>
    /\ phase = "pass"
    /\ emitted = 0

\* The entries of the deltas: every upload and patch of a user id, the full
\* upload of one managed texture, and the free of a user id.
UserSetEntries == {entry \in SetEntries : entry.id[1] = "User"}
UserIds == {t \in TextureIds : t[1] = "User"}
ManagedUpload == [id |-> Managed(0), image |-> ImgA, pos |-> None]

NextD ==
    \/ \E h \in Handles : CallAddImage(h)
    \/ SpawnTarget(<<0, 0>>)
    \/ \E entry \in UserSetEntries \cup {ManagedUpload} : WriteSet(<<0, 0>>, entry)
    \/ \E t \in UserIds : WriteFree(<<0, 0>>, t)
    \/ update_egui_textures_system
    \/ free_egui_textures_system
    \/ ExtractTextures
    \/ queue_bind_groups_system
    \/ ApplyRenderCommands

SpecUserDeltas == InitDeltas /\ [][NextD]_vars

(***************************************************************************)
(* The render world's frames, as the queue systems see them: between two   *)
(* frames the extracted textures and the prepared GPU images change, then  *)
(* the queue systems run.  The user images are the assets Handles, the     *)
(* managed images are assets of their own.                                 *)
(***************************************************************************)
ManagedAssets == {NumHandles, NumHandles + 1}
LocalIds == {0, 1}
ManagedKeys == {<<0, 0>>, <<1, 0>>} \X LocalIds

\* Every step of these leaves the main world's side and the other parts of
\* the model alone.
RenderSideOnly ==
    /\ ~panicked
    /\ phase = "pass" /\ pphase = "pass"
    /\ phase' = "queue"
    /\ pphase' = "queue"
    /\ UNCHANGED <<render_output, despawned, egui_managed_textures, image_assets,
                   next_asset, warnings, panicked, bind_groups, render_commands, emitted,
                   varsU, varsG, varsI, varsC, varsS, varsM, varsA, specialized_pipelines,
                   egui_pipelines, queue_log>>

\* The extraction brings a managed texture, under a key that had none or in
\* place of the one it had; every managed texture has an image of its own.
ManagedTextureExtracted(key, asset) ==
    /\ \A k \in DOMAIN extracted_managed : extracted_managed[k] # asset
    /\ extracted_managed' = MapInsert(extracted_managed, key, asset)
    /\ UNCHANGED <<extracted_user, gpu_images, extracted_windows, image_targets>>
    /\ RenderSideOnly

\* The extraction no longer brings a managed texture (freed, or its target
\* is gone).
ManagedTextureGone(key) ==
    /\ key \in DOMAIN extracted_managed
    /\ extracted_managed' = MapRemove(extracted_managed, key)
    /\ UNCHANGED <<extracted_user, gpu_images, extracted_windows, image_targets>>
    /\ RenderSideOnly

\* The extraction brings a registration of a user texture; no two handles
\* have the same id.
UserTextureExtracted(handle, id) ==
    /\ handle \notin DOMAIN extracted_user.textures
    /\ \A h \in DOMAIN extracted_user.textures : extracted_user.textures[h] # id
    /\ extracted_user' = [textures |-> MapInsert(extracted_user.textures, handle, id),
                          last_texture_id |-> IF extracted_user.last_texture_id > id
                                              THEN extracted_user.last_texture_id
                                              ELSE id + 1]
    /\ UNCHANGED <<extracted_managed, gpu_images, extracted_windows, image_targets>>
    /\ RenderSideOnly

\* The extraction no longer brings a registration (remove_image, or the
\* asset was removed).
UserTextureGone(handle) ==
    /\ handle \in DOMAIN extracted_user.textures
    /\ extracted_user' = [extracted_user EXCEPT !.textures = MapRemove(@, handle)]
    /\ UNCHANGED <<extracted_managed, gpu_images, extracted_windows, image_targets>>
    /\ RenderSideOnly

\* RenderAssets<GpuImage>: the image of an asset is prepared, or is removed.
GpuImagePrepared(asset) ==
    /\ asset \notin gpu_images
    /\ gpu_images' = gpu_images \cup {asset}
    /\ UNCHANGED <<extracted_managed, extracted_user, extracted_windows, image_targets>>
    /\ RenderSideOnly

GpuImageRemoved(asset) ==
    /\ asset \in gpu_images
    /\ gpu_images' = gpu_images \ {asset}
    /\ UNCHANGED <<extracted_managed, extracted_user, extracted_windows, image_targets>>
    /\ RenderSideOnly


(***************************************************************************)
(* The pipelines.  A window is extracted with the format of its swap       *)
(* chain, which it has once its surface is configured; the GpuImage of an  *)
(* image has the format of the image.                                      *)
(***************************************************************************)
Formats == {"Bgra8UnormSrgb", "Rgba8UnormSrgb"}
PipelineWindows == {<<0, 0>>, <<1, 0>>}
PipelineImages == {<<1, 0>>}

\* GpuImage::texture_format of the image of an asset.
ImageFormat(asset) == IF asset % 2 = 0 THEN "Rgba8UnormSrgb" ELSE "Bgra8UnormSrgb"

\* EguiPipelineKey::from_extracted_window: none without a swap chain format.
from_extracted_window(window) ==
    IF window = None THEN None ELSE Some([texture_format |-> window[1]])

\* EguiPipelineKey::from_gpu_image
from_gpu_image(asset) == [texture_format |-> ImageFormat(asset)]

\* SpecializedRenderPipelines::specialize: the pipeline of the key, queued
\* in the pipeline cache under a new id when the key has none.
specialize(specialized, key) ==
    IF key \in DOMAIN specialized
    THEN [specialized |-> specialized, id |-> specialized[key]]
    ELSE [specialized |-> MapInsert(specialized, key, Cardinality(DOMAIN specialized)),
          id |-> Cardinality(DOMAIN specialized)]

\* The filter_map closures, folded over the items in iteration order: an
\* item without a key is left out, the others are specialized and inserted
\* under their entity, a later item taking the place of an earlier one of
\* the same entity.
RECURSIVE QueuedPipelines(_, _, _)
QueuedPipelines(specialized, pipelines, items) ==
    IF items = <<>> THEN [specialized |-> specialized, pipelines |-> pipelines]
    ELSE LET item == Head(items) IN
         IF item.key = None
         THEN QueuedPipelines(specialized, pipelines, Tail(items))
         ELSE LET made == specialize(specialized, item.key[1]) IN
              QueuedPipelines(made.specialized,
                              MapInsert(pipelines, item.entity, made.id),
                              Tail(items))

\* The targets of the frame, one per entity and kind, with their keys.
WindowKey(e) == from_extracted_window(extracted_windows[e])
ImageKey(e) ==
    IF image_targets[e] \in gpu_images THEN Some(from_gpu_image(image_targets[e]))
    ELSE None
PipelineTargets ==
    {<<e, "Window">> : e \in DOMAIN extracted_windows}
        \cup {<<e, "Image">> : e \in DOMAIN image_targets}
TargetKey(target) ==
    IF target[2] = "Window" THEN WindowKey(target[1]) ELSE ImageKey(target[1])

\* bevy_render's window extraction brings a window, or a change of its swap
\* chain format; a closed window is no longer extracted.
WindowExtracted(e, format) ==
    /\ IF e \in DOMAIN extracted_windows THEN extracted_windows[e] # format ELSE TRUE
    /\ extracted_windows' = MapInsert(extracted_windows, e, format)
    /\ UNCHANGED <<image_targets, extracted_managed, extracted_user, gpu_images>>
    /\ RenderSideOnly

WindowClosed(e) ==
    /\ e \in DOMAIN extracted_windows
    /\ extracted_windows' = MapRemove(extracted_windows, e)
    /\ UNCHANGED <<image_targets, extracted_managed, extracted_user, gpu_images>>
    /\ RenderSideOnly

\* The extraction brings an EguiRenderToImage of an entity, or no longer does.
ImageTargetExtracted(e, handle) ==
    /\ e \notin DOMAIN image_targets
    /\ image_targets' = MapInsert(image_targets, e, handle)
    /\ UNCHANGED <<extracted_windows, extracted_managed, extracted_user, gpu_images>>
    /\ RenderSideOnly

ImageTargetGone(e) ==
    /\ e \in DOMAIN image_targets
    /\ image_targets' = MapRemove(image_targets, e)
    /\ UNCHANGED <<extracted_windows, extracted_managed, extracted_user, gpu_images>>
    /\ RenderSideOnly

\* What a run of queue_pipelines_system does to the state: the windows
\* collected, extended with the image targets, each in the order its map or
\* query yields; the run ends with commands.insert_resource(EguiPipelines(
\* pipelines)), which queues the map it built.
QueuePipelines ==
    /\ \E worder \in Orders(DOMAIN extracted_windows),
          iorder \in Orders(DOMAIN image_targets) :
          LET witems == [i \in DOMAIN worder |->
                            [entity |-> worder[i], key |-> WindowKey(worder[i])]]
              iitems == [i \in DOMAIN iorder |->
                            [entity |-> iorder[i], key |-> ImageKey(iorder[i])]]
              queued == QueuedPipelines(specialized_pipelines, EmptyMap, witems \o iitems)
          IN /\ specialized_pipelines' = queued.specialized
             /\ render_commands' = Append(render_commands,
                                          [resource |-> "EguiPipelines",
                                           value |-> queued.pipelines])
             /\ queue_log' = [queue_log EXCEPT
                   !.skipped_targets = {t \in PipelineTargets : TargetKey(t) = None},
                   !.healed_targets = {t \in queue_log.skipped_targets \cap PipelineTargets :
                                          /\ TargetKey(t) # None
                                          /\ t[1] \in DOMAIN queued.pipelines}]
    /\ UNCHANGED <<extracted_windows, image_targets, egui_pipelines, varsU, varsG, varsI,
                   varsC, varsM, varsA>>
    /\ UNCHANGED <<render_output, despawned, egui_managed_textures, image_assets,
                   next_asset, warnings, panicked, extracted_managed, extracted_user,
                   gpu_images, bind_groups, emitted>>

queue_pipelines_system ==
    /\ pphase = "queue" /\ ~panicked
    /\ QueuePipelines
    /\ pphase' = "queued"
    /\ UNCHANGED <<phase, varsS>>

NextQ ==
    \/ \E key \in ManagedKeys, asset \in ManagedAssets : ManagedTextureExtracted(key, asset)
    \/ \E key \in ManagedKeys : ManagedTextureGone(key)
    \/ \E handle \in Handles, id \in LocalIds : UserTextureExtracted(handle, id)
    \/ \E handle \in Handles : UserTextureGone(handle)
    \/ \E asset \in Handles \cup ManagedAssets : GpuImagePrepared(asset)
    \/ \E asset \in Handles \cup ManagedAssets : GpuImageRemoved(asset)
    \/ queue_pipelines_system
    \/ queue_bind_groups_system
    \/ ApplyRenderCommands

SpecBindGroups == Init /\ [][NextQ]_vars

NextP ==
    \/ \E e \in PipelineWindows, format \in {None} \cup {Some(f) : f \in Formats} :
          WindowExtracted(e, format)
    \/ \E e \in PipelineWindows : WindowClosed(e)
    \/ \E e \in PipelineImages, handle \in Handles : ImageTargetExtracted(e, handle)
    \/ \E e \in PipelineImages : ImageTargetGone(e)
    \/ \E handle \in Handles : UserTextureExtracted(handle, 0)
    \/ \E handle \in Handles : UserTextureGone(handle)
    \/ \E asset \in Handles : GpuImagePrepared(asset)
    \/ \E asset \in Handles : GpuImageRemoved(asset)
    \/ queue_pipelines_system
    \/ queue_bind_groups_system
    \/ ApplyRenderCommands

SpecPipelines == Init /\ [][NextP]_vars


(***************************************************************************)
(* Render targets and the render graph.  The main world spawns and         *)
(* despawns entities and adds and removes their Window and                 *)
(* EguiRenderToImage components; the InitContexts chain gives the targets  *)
(* their state; once per frame the extraction schedule runs the four node  *)
(* systems, which EguiPlugin::finish adds with no order among them.        *)
(***************************************************************************)
NodeSystems == {"setup_new_window_nodes_system", "teardown_window_nodes_system",
                "setup_new_render_to_image_nodes_system",
                "teardown_render_to_image_nodes_system"}

\* The main world's own systems run in the main schedules, before, between
\* and after the systems of the InitContexts chain, which is ordered among
\* its own systems only; they do not run while the main world is extracted.
HostSystemsRun == cphase # "extracted" /\ ~ctx_panicked

MainWorld == gphase # "extract" /\ ~panicked /\ HostSystemsRun

\* What the main world's entity commands leave alone.
UnchangedGraphSide ==
    /\ removed_nodes' = {}
    /\ teardown_log' = NoLog
    /\ quiet' = 0
    /\ ctx_call' = NoCall
    /\ gphase' = "main"
    /\ UNCHANGED <<render_graph, pending, cphase, varsU, varsT, varsI, varsS, varsL, commands,
                   ctx_panicked, extracted_targets, render_only, egui_transforms>>

\* The entities spawned so far.
EverSpawned == alive \cup {e \in Entities : e[2] < next_gen[e[1]]}

\* The indices of despawned entities that no entity has taken again.
FreedIndices == {i \in Indices : next_gen[i] > 0 /\ \A e \in alive : e[1] # i}

\* An entity is spawned: at a freed index, with the next generation, when
\* there is one, and at the first index never used otherwise.
Spawn(i) ==
    /\ MainWorld
    /\ changes < MaxChanges
    /\ changes' = changes + 1
    /\ Cardinality(EverSpawned) < MaxSpawned
    /\ IF FreedIndices # {} THEN i \in FreedIndices
       ELSE /\ \A e \in EverSpawned : e[1] # i
            /\ \A j \in 0 .. (i - 1) : \E e \in EverSpawned : e[1] = j
    /\ alive' = alive \cup {<<i, next_gen[i]>>}
    /\ UNCHANGED <<next_gen, windows, render_to_image, primary_window, synced, added_window,
                   added_image, removed_window, removed_image>>
    /\ UNCHANGED <<egui_context, new_windows, new_images>>
    /\ UnchangedGraphSide

\* A Window is inserted, with the PrimaryWindow marker or without it.
InsertWindow(e, primary) ==
    /\ MainWorld
    /\ changes < MaxChanges
    /\ changes' = changes + 1
    /\ e \in alive /\ e \notin windows
    /\ windows' = windows \cup {e}
    /\ primary_window' = IF primary THEN primary_window \cup {e} ELSE primary_window
    /\ added_window' = added_window \cup {e}
    /\ UNCHANGED <<alive, next_gen, render_to_image, synced, added_image, removed_window,
                   removed_image>>
    /\ new_windows' = new_windows \cup {e}
    /\ UNCHANGED <<egui_context, new_images>>
    /\ UnchangedGraphSide

\* An EguiRenderToImage is inserted; the component is one of those the
\* plugin has synchronised to the render world (ExtractComponentPlugin), so
\* that the entity has SyncToRenderWorld with it.
InsertRenderToImage(e) ==
    /\ MainWorld
    /\ changes < MaxChanges
    /\ changes' = changes + 1
    /\ e \in alive /\ e \notin render_to_image
    /\ render_to_image' = render_to_image \cup {e}
    /\ synced' = synced \cup {e}
    /\ added_image' = added_image \cup {e}
    /\ UNCHANGED <<alive, next_gen, windows, primary_window, added_window, removed_window,
                   removed_image>>
    /\ new_images' = new_images \cup {e}
    /\ UNCHANGED <<egui_context, new_windows>>
    /\ UnchangedGraphSide

RemoveWindow(e) ==
    /\ MainWorld
    /\ UNCHANGED changes
    /\ e \in windows
    /\ windows' = windows \ {e}
    /\ added_window' = added_window \ {e}
    /\ removed_window' = removed_window \cup {e}
    /\ UNCHANGED <<alive, next_gen, render_to_image, primary_window, synced, added_image,
                   removed_image>>
    /\ new_windows' = new_windows \ {e}
    /\ UNCHANGED <<egui_context, new_images>>
    /\ UnchangedGraphSide

RemoveRenderToImage(e) ==
    /\ MainWorld
    /\ UNCHANGED changes
    /\ e \in render_to_image
    /\ render_to_image' = render_to_image \ {e}
    /\ added_image' = added_image \ {e}
    /\ removed_image' = removed_image \cup {e}
    /\ UNCHANGED <<alive, next_gen, windows, primary_window, synced, added_window,
                   removed_window>>
    /\ new_images' = new_images \ {e}
    /\ UNCHANGED <<egui_context, new_windows>>
    /\ UnchangedGraphSide

Despawn(e) ==
    /\ MainWorld
    /\ UNCHANGED changes
    /\ e \in alive
    /\ alive' = alive \ {e}
    /\ next_gen' = [next_gen EXCEPT ![e[1]] = @ + 1]
    /\ windows' = windows \ {e}
    /\ render_to_image' = render_to_image \ {e}
    /\ primary_window' = primary_window \ {e}
    /\ synced' = synced \ {e}
    /\ added_window' = added_window \ {e}
    /\ added_image' = added_image \ {e}
    /\ removed_window' = IF e \in windows THEN removed_window \cup {e} ELSE removed_window
    /\ removed_image' = IF e \in render_to_image THEN removed_image \cup {e} ELSE removed_image
    /\ egui_context' = MapRemove(egui_context, e)
    /\ new_windows' = new_windows \ {e}
    /\ new_images' = new_images \ {e}
    /\ UnchangedGraphSide

(***************************************************************************)
(* The InitContexts chain: setup_new_windows_system,                       *)
(* setup_render_to_image_handles_system, apply_deferred and                *)
(* update_contexts_system, in this order.                                  *)
(***************************************************************************)
\* What the systems of the chain leave alone.
UnchangedByContextSteps ==
    UNCHANGED <<alive, next_gen, windows, render_to_image, primary_window, added_window,
                added_image, removed_window, removed_image, render_graph, pending,
                removed_nodes, teardown_log, changes, gphase, extracted_targets,
                render_only, egui_transforms, varsU, varsT, varsI, varsL>>

\* What a run of setup_new_windows_system does to the state.
SetupNewWindows ==
    /\ \E order \in Orders(NewWindowsQuery(new_windows, egui_context)) :
          commands' = QueueInserts(commands, order)
    /\ new_windows' = {}
    /\ ctx_call' = [op |-> "setup_new_windows_system", entity |-> None,
                    added |-> new_windows]
    /\ UNCHANGED <<egui_context, new_images, synced, ctx_panicked>>
    /\ UnchangedByContextSteps

\* What a run of setup_render_to_image_handles_system does to the state.
SetupRenderToImageHandles ==
    /\ \E order \in Orders(NewRenderToImageQuery(new_images, egui_context)) :
          commands' = QueueInserts(commands, order)
    /\ new_images' = {}
    /\ ctx_call' = [op |-> "setup_render_to_image_handles_system", entity |-> None,
                    added |-> new_images]
    /\ UNCHANGED <<egui_context, new_windows, synced, ctx_panicked>>
    /\ UnchangedByContextSteps

\* The commands of the two setup systems are applied; the components of the
\* bundle are among those the plugin has synchronised to the render world,
\* so that the entities that get them have SyncToRenderWorld with them.
ApplyDeferred ==
    /\ LET applied == ApplyInserts(egui_context, commands, alive)
       IN /\ egui_context' = applied.contexts
          /\ synced' = synced \cup DOMAIN applied.contexts
          /\ ctx_panicked' = applied.panicked
    /\ commands' = <<>>
    /\ ctx_call' = NoCall
    /\ UNCHANGED <<new_windows, new_images>>
    /\ UnchangedByContextSteps

\* update_contexts_system ends the chain; it writes the sizes and settings of
\* the targets and adds or removes no component.
UpdateContexts ==
    /\ ctx_call' = NoCall
    /\ UNCHANGED <<egui_context, new_windows, new_images, commands, synced, ctx_panicked>>
    /\ UnchangedByContextSteps

\* The system of the chain that comes at this position runs.
ChainRuns(position) ==
    /\ cphase = position
    /\ ~ctx_panicked /\ ~panicked
    /\ gphase # "extract"
    /\ UNCHANGED <<quiet, varsS>>

setup_new_windows_system ==
    /\ ChainRuns("prepared")
    /\ SetupNewWindows
    /\ cphase' = "windows"

setup_render_to_image_handles_system ==
    /\ ChainRuns("windows")
    /\ SetupRenderToImageHandles
    /\ cphase' = "images"

apply_deferred ==
    /\ ChainRuns("images")
    /\ ApplyDeferred
    /\ cphase' = "flushed"

update_contexts_system ==
    /\ ChainRuns("flushed")
    /\ UpdateContexts
    /\ cphase' = "initialised"

(***************************************************************************)
(* The node systems of the extraction schedule.                            *)
(***************************************************************************)
\* What the node systems leave alone.
UnchangedBySystems ==
    UNCHANGED <<alive, next_gen, windows, render_to_image, primary_window, synced, changes,
                render_output, despawned, egui_managed_textures, image_assets,
                next_asset, warnings, extracted_managed, extracted_user, gpu_images,
                bind_groups, render_commands, phase, emitted, egui_context, new_windows,
                new_images, commands, quiet, ctx_call, ctx_panicked, extracted_targets,
                render_only, egui_transforms, varsU, varsI, varsL>>

\* Extract<Query<(Entity, &RenderEntity), Added<Window>>>: the extraction
\* has given a RenderEntity to the entities with SyncToRenderWorld.
NewWindowNodesQuery(added, with_render_entity) == added \cap with_render_entity

\* Extract<Query<(Entity, &RenderEntity), Added<EguiRenderToImage>>>
NewRenderToImageNodesQuery(added, with_render_entity) == added \cap with_render_entity

NewGraph == [graph |-> render_graph, panicked |-> FALSE, logged |-> 0]

\* What a run of each node system does to the state.  The removal events
\* are read in the order they were sent, which has no part in what the
\* teardown loops leave: they do not panic, and no two entities have the
\* same node.
SetupNewWindowNodes ==
    /\ \E order \in Orders(NewWindowNodesQuery(added_window, synced)) :
          LET st == ForEach("setup_new_window_nodes_system", NewGraph, order)
          IN render_graph' = st.graph /\ panicked' = st.panicked
    /\ teardown_log' = NoLog
    /\ added_window' = {}
    /\ UNCHANGED <<added_image, removed_window, removed_image>>
    /\ UnchangedBySystems

TeardownWindowNodes ==
    /\ \E order \in Orders(removed_window) :
          LET st == ForEach("teardown_window_nodes_system", NewGraph, order)
          IN /\ render_graph' = st.graph
             /\ panicked' = st.panicked
             /\ teardown_log' = [system |-> "teardown_window_nodes_system",
                                 events |-> removed_window, errors |-> st.logged]
    /\ removed_window' = {}
    /\ UNCHANGED <<added_window, added_image, removed_image>>
    /\ UnchangedBySystems

SetupNewRenderToImageNodes ==
    /\ \E order \in Orders(NewRenderToImageNodesQuery(added_image, synced)) :
          LET st == ForEach("setup_new_render_to_image_nodes_system", NewGraph, order)
          IN render_graph' = st.graph /\ panicked' = st.panicked
    /\ teardown_log' = NoLog
    /\ added_image' = {}
    /\ UNCHANGED <<added_window, removed_window, removed_image>>
    /\ UnchangedBySystems

TeardownRenderToImageNodes ==
    /\ \E order \in Orders(removed_image) :
          LET st == ForEach("teardown_render_to_image_nodes_system", NewGraph, order)
          IN /\ render_graph' = st.graph
             /\ panicked' = st.panicked
             /\ teardown_log' = [system |-> "teardown_render_to_image_nodes_system",
                                 events |-> removed_image, errors |-> st.logged]
    /\ removed_image' = {}
    /\ UNCHANGED <<added_window, added_image, removed_window>>
    /\ UnchangedBySystems

\* A system of the extraction schedule runs: the first one to run in a frame
\* starts the extraction, which comes after the InitContexts chain of the
\* frame, and the last one ends it.
MayRunNow(system) ==
    /\ ~panicked /\ ~ctx_panicked
    /\ IF gphase = "extract" THEN system \in pending ELSE cphase = "initialised"

RunsNow(system) ==
    /\ pending' = (IF gphase = "extract" THEN pending ELSE NodeSystems) \ {system}
    /\ gphase' = IF pending' = {} THEN "settled" ELSE "extract"
    /\ cphase' = IF pending' = {} THEN "prepared" ELSE cphase
    /\ removed_nodes' = (IF gphase = "extract" THEN removed_nodes ELSE {})
                           \cup (DOMAIN render_graph \ DOMAIN render_graph')
    /\ UNCHANGED varsS

setup_new_window_nodes_system ==
    MayRunNow("setup_new_window_nodes_system") /\ SetupNewWindowNodes /\ RunsNow("setup_new_window_nodes_system")

teardown_window_nodes_system ==
    MayRunNow("teardown_window_nodes_system") /\ TeardownWindowNodes /\ RunsNow("teardown_window_nodes_system")

setup_new_render_to_image_nodes_system ==
    MayRunNow("setup_new_render_to_image_nodes_system") /\ SetupNewRenderToImageNodes /\ RunsNow("setup_new_render_to_image_nodes_system")

teardown_render_to_image_nodes_system ==
    MayRunNow("teardown_render_to_image_nodes_system") /\ TeardownRenderToImageNodes /\ RunsNow("teardown_render_to_image_nodes_system")

NextG ==
    \/ \E i \in Indices : Spawn(i)
    \/ \E e \in Entities : InsertWindow(e, FALSE)
    \/ \E e \in Entities : InsertRenderToImage(e)
    \/ \E e \in Entities : RemoveWindow(e)
    \/ \E e \in Entities : RemoveRenderToImage(e)
    \/ \E e \in Entities : Despawn(e)
    \/ setup_new_windows_system
    \/ setup_render_to_image_handles_system
    \/ apply_deferred
    \/ update_contexts_system
    \/ setup_new_window_nodes_system
    \/ teardown_window_nodes_system
    \/ setup_new_render_to_image_nodes_system
    \/ teardown_render_to_image_nodes_system

SpecNodes == Init /\ [][NextG]_vars


(***************************************************************************)
(* IME.  The input systems call ime_event_enable and ime_event_disable on  *)
(* a target's query item; the pass takes the target's input once a frame.  *)
(***************************************************************************)
\* The item is written back, and what the call pushed is added to the record
\* of the events sent.
StoreItem(e, item) ==
    /\ has_sent_ime_enabled' =
           [has_sent_ime_enabled EXCEPT ![e] = item.ctx.has_sent_ime_enabled]
    /\ egui_input_events' = [egui_input_events EXCEPT ![e] = item.egui_input.events]
    /\ ime_sent' = [ime_sent EXCEPT ![e] =
                        @ \o SubSeq(item.egui_input.events, Len(egui_input_events[e]) + 1,
                                    Len(item.egui_input.events))]
    /\ Len(ime_sent'[e]) <= MaxImeEvents

CallImeEventEnable(e) ==
    /\ StoreItem(e, ime_event_enable(EguiContextQueryItem(e)))
    /\ ime_call' = [op |-> "ime_event_enable", target |-> Some(e)]
    /\ UNCHANGED <<varsU, varsT, varsG, varsC, varsS, varsL>>

CallImeEventDisable(e) ==
    /\ StoreItem(e, ime_event_disable(EguiContextQueryItem(e)))
    /\ ime_call' = [op |-> "ime_event_disable", target |-> Some(e)]
    /\ UNCHANGED <<varsU, varsT, varsG, varsC, varsS, varsL>>

\* The pass begins with the target's input, which leaves a default input.
TakeInput(e) ==
    /\ egui_input_events[e] # <<>>
    /\ egui_input_events' = [egui_input_events EXCEPT ![e] = <<>>]
    /\ ime_call' = [op |-> "take", target |-> Some(e)]
    /\ UNCHANGED <<has_sent_ime_enabled, ime_sent, varsU, varsT, varsG, varsC, varsS, varsL>>

NextI ==
    \/ \E e \in TexEntities : CallImeEventEnable(e)
    \/ \E e \in TexEntities : CallImeEventDisable(e)
    \/ \E e \in TexEntities : TakeInput(e)

SpecIme == Init /\ [][NextI]_vars

(***************************************************************************)
(* The tick of the per-target state: the InitContexts chain of PreUpdate,  *)
(* the main world's own systems with their calls of EguiContexts, and the  *)
(* render frame (component extraction, transform preparation).             *)
(***************************************************************************)
\* What a host system that works on the state bundle leaves alone.
UnchangedByContextCalls ==
    UNCHANGED <<varsU, varsT, varsI, varsS, varsL, alive, next_gen, windows, render_to_image,
                primary_window, synced, added_window, added_image, removed_window,
                removed_image, render_graph, pending, removed_nodes, teardown_log, gphase,
                new_windows, new_images, commands, cphase, extracted_targets,
                render_only, egui_transforms>>

\* The items of the query of EguiContexts now, in an order it may yield them.
ContextsItems ==
    Orders(ContextsQuery(egui_context, windows, render_to_image, primary_window))

\* A system of the host calls an accessor of EguiContexts and changes the
\* contexts it gets.
UseContexts(this_call, got, panics) ==
    /\ HostSystemsRun
    /\ changes < MaxChanges
    /\ changes' = changes + 1
    /\ egui_context' = [e \in DOMAIN egui_context |->
                           IF e \in got THEN "used" ELSE egui_context[e]]
    /\ ctx_panicked' = panics
    /\ quiet' = 0
    /\ ctx_call' = this_call
    /\ UnchangedByContextCalls

\* ctx_for_entity_mut: try_ctx_for_entity_mut(entity).unwrap_or_else(|| panic!(..))
CallCtxForEntityMut(entity) ==
    \E q \in ContextsItems :
        LET r == try_ctx_for_entity_mut(q, entity)
        IN UseContexts([op |-> "ctx_for_entity_mut", entity |-> Some(entity)],
                       {r[i] : i \in DOMAIN r}, r = None)

\* ctx_mut: try_ctx_mut().expect(..)
CallCtxMut ==
    \E q \in ContextsItems :
        LET r == try_ctx_mut(q)
        IN UseContexts([op |-> "ctx_mut", entity |-> None, ret |-> r],
                       {r[i] : i \in DOMAIN r}, r = None)

CallTryCtxMut ==
    \E q \in ContextsItems :
        LET r == try_ctx_mut(q)
        IN UseContexts([op |-> "try_ctx_mut", entity |-> None, ret |-> r],
                       {r[i] : i \in DOMAIN r}, FALSE)

CallTryCtxForEntityMut(entity) ==
    \E q \in ContextsItems :
        LET r == try_ctx_for_entity_mut(q, entity)
        IN UseContexts([op |-> "try_ctx_for_entity_mut", entity |-> Some(entity),
                        ret |-> r],
                       {r[i] : i \in DOMAIN r}, FALSE)

CallCtxForEntitiesMut(ids) ==
    \E q \in ContextsItems :
        LET r == ctx_for_entities_mut(q, ids)
        IN UseContexts([op |-> "ctx_for_entities_mut", entity |-> ids, ret |-> r],
                       {r.contexts[i] : i \in DOMAIN r.contexts}, FALSE)

\* A system of the host removes the components of the state bundle from an
\* entity.
RemoveBundle(e) ==
    /\ HostSystemsRun
    /\ e \in DOMAIN egui_context
    /\ egui_context' = MapRemove(egui_context, e)
    /\ UNCHANGED changes
    /\ quiet' = 0
    /\ ctx_call' = NoCall
    /\ UNCHANGED ctx_panicked
    /\ UnchangedByContextCalls

\* What the steps of the render frame leave alone.
UnchangedByRenderFrame ==
    UNCHANGED <<egui_context, new_windows, new_images, commands, ctx_panicked, render_only,
                varsU, varsT, varsG, varsI, varsL>>

\* ExtractComponentPlugin<EguiSettings> and <RenderTargetSize>: the render
\* world gets the two components of every entity that has them.
ExtractComponents ==
    /\ extracted_targets' = DOMAIN egui_context
    /\ ctx_call' = NoCall
    /\ UNCHANGED egui_transforms
    /\ UnchangedByRenderFrame

ExtractComponentsStep ==
    /\ cphase = "initialised" /\ ~ctx_panicked
    /\ ExtractComponents
    /\ cphase' = "extracted"
    /\ UNCHANGED <<quiet, varsS>>

\* The settings and the size the render targets have when the transforms
\* are prepared: the settings are the default ones, and update_contexts_system
\* has written the size of the target.  In the apps explored the targets of
\* even index are 800 x 600 at the scale factor 1 and those of odd index
\* 600 x 800 at the scale factor 2; an entity of the render world's own is
\* 800 x 600.
TargetInputs(window_main) ==
    IF window_main # None /\ window_main[1][1] % 2 = 1
    THEN [egui_settings |-> [scale_factor |-> F32(1)],
          size |-> [physical_width |-> F32(600), physical_height |-> F32(800),
                    scale_factor |-> F32(2)]]
    ELSE [egui_settings |-> [scale_factor |-> F32(1)],
          size |-> [physical_width |-> F32(800), physical_height |-> F32(600),
                    scale_factor |-> F32(1)]]

\* The items (Option<&MainEntity>, &EguiSettings, &RenderTargetSize) the
\* query of prepare_egui_transforms_system may yield, in the orders it may
\* yield them: one of every extracted target, and one more, which has no
\* MainEntity, where the render world has an entity of its own with the two
\* components.
TransformItems(targets, own) ==
    LET rows == {Some(e) : e \in targets} \cup (IF own THEN {None} ELSE {})
    IN {[i \in DOMAIN order |->
            [window_main |-> order[i],
             egui_settings |-> TargetInputs(order[i]).egui_settings,
             size |-> TargetInputs(order[i]).size]] :
          order \in Orders(rows)}

\* A system of the host's render app spawns an entity with EguiSettings and
\* RenderTargetSize in the render world; the entity stands for no entity of
\* the main world.
SpawnRenderWorldTarget ==
    /\ HostSystemsRun
    /\ changes < MaxChanges
    /\ changes' = changes + 1
    /\ ~render_only
    /\ render_only' = TRUE
    /\ quiet' = 0
    /\ ctx_call' = NoCall
    /\ UNCHANGED <<egui_context, ctx_panicked, egui_transforms, extracted_targets, cphase,
                   new_windows, new_images, commands, varsU, varsT, varsI, varsS, varsL,
                   alive, next_gen, windows, render_to_image, primary_window, synced,
                   added_window, added_image, removed_window, removed_image, render_graph,
                   pending, removed_nodes, teardown_log, gphase>>

\* What a run of prepare_egui_transforms_system does to the state.
PrepareTransforms ==
    /\ \E items \in TransformItems(extracted_targets, render_only) :
          /\ egui_transforms' =
                UpdateBindGroup(write_buffer(
                    PushTransforms(ClearTransforms(egui_transforms), items)))
          /\ ctx_call' = [op |-> "prepare_egui_transforms_system", entity |-> None,
                          cleared |-> DOMAIN egui_transforms.offsets, items |-> items]
    /\ UNCHANGED extracted_targets
    /\ UnchangedByRenderFrame

prepare_egui_transforms_system ==
    /\ cphase = "extracted"
    /\ PrepareTransforms
    /\ cphase' = "prepared"
    /\ quiet' = IF quiet < 2 THEN quiet + 1 ELSE quiet
    /\ UNCHANGED varsS

NextC ==
    \/ \E i \in Indices : Spawn(i)
    \/ \E e \in Entities, primary \in BOOLEAN : InsertWindow(e, primary)
    \/ \E e \in Entities : InsertRenderToImage(e)
    \/ \E e \in Entities : RemoveWindow(e)
    \/ \E e \in Entities : RemoveRenderToImage(e)
    \/ \E e \in Entities : Despawn(e)
    \/ \E e \in Entities : RemoveBundle(e)
    \/ SpawnRenderWorldTarget
    \/ \E e \in Entities : CallCtxForEntityMut(e)
    \/ CallCtxMut
    \/ CallTryCtxMut
    \/ \E e \in EverSpawned : CallTryCtxForEntityMut(e)
    \/ \E ids \in EverSpawned \X EverSpawned : CallCtxForEntitiesMut(ids)
    \/ setup_new_windows_system
    \/ setup_render_to_image_handles_system
    \/ apply_deferred
    \/ update_contexts_system
    \/ ExtractComponentsStep
    \/ prepare_egui_transforms_system

SpecContexts == Init /\ [][NextC]_vars

(***************************************************************************)
(* A frame of the app: the executor runs the systems of the schedules,     *)
(* each with what it does to the state; the engine's extraction plugins    *)
(* run in the extraction schedule, and the commands the queue systems      *)
(* leave are applied before the render graph runs.                         *)
(***************************************************************************)
\* The systems of the engine's plugins that the plugin adds.
EngineSystemsOf(label) ==
    IF label = "ExtractSchedule" THEN {"ExtractComponentPlugin", "ExtractResourcePlugin"}
    ELSE {}

\* What the run of the system does to the state; the positions of the
\* frames of the other specifications stay.
SystemEffect(system) ==
    CASE system = "setup_new_windows_system" ->
            SetupNewWindows /\ UNCHANGED <<cphase, quiet>>
      [] system = "setup_render_to_image_handles_system" ->
            SetupRenderToImageHandles /\ UNCHANGED <<cphase, quiet>>
      [] system = "apply_deferred" -> ApplyDeferred /\ UNCHANGED <<cphase, quiet>>
      [] system = "update_contexts_system" -> UpdateContexts /\ UNCHANGED <<cphase, quiet>>
      [] system = "update_egui_textures_system" -> UpdateTextures /\ UNCHANGED phase
      [] system = "free_egui_textures_system" -> FreeTextures /\ UNCHANGED phase
      [] system = "setup_new_window_nodes_system" ->
            SetupNewWindowNodes /\ UNCHANGED <<gphase, pending, removed_nodes, cphase>>
      [] system = "teardown_window_nodes_system" ->
            TeardownWindowNodes /\ UNCHANGED <<gphase, pending, removed_nodes, cphase>>
      [] system = "setup_new_render_to_image_nodes_system" ->
            SetupNewRenderToImageNodes
                /\ UNCHANGED <<gphase, pending, removed_nodes, cphase>>
      [] system = "teardown_render_to_image_nodes_system" ->
            TeardownRenderToImageNodes
                /\ UNCHANGED <<gphase, pending, removed_nodes, cphase>>
      [] system = "ExtractComponentPlugin" -> ExtractComponents /\ UNCHANGED <<cphase, quiet>>
      [] system = "ExtractResourcePlugin" -> ExtractResources /\ UNCHANGED phase
      [] system = "prepare_egui_transforms_system" ->
            PrepareTransforms /\ UNCHANGED <<cphase, quiet>>
      [] system = "queue_bind_groups_system" -> QueueBindGroups /\ UNCHANGED phase
      [] system = "queue_pipelines_system" -> QueuePipelines /\ UNCHANGED <<phase, pphase>>
      [] OTHER -> UNCHANGED <<varsU, varsT, varsG, varsI, varsC, varsL>>

RunSystem(system) ==
    /\ ~panicked /\ ~ctx_panicked
    /\ system \in (SystemsOf(Schedules[schedule]) \cup EngineSystemsOf(Schedules[schedule]))
                     \ done
    /\ MustPrecede(system) \subseteq done
    /\ system = "render_graph" => render_commands = <<>>
    /\ done' = done \cup {system}
    /\ SystemEffect(system)
    /\ input_processed' = IF system = "process_input_system" THEN DOMAIN egui_context
                          ELSE input_processed
    /\ output_at' =
          CASE system = "begin_pass_system" -> [e \in DOMAIN egui_context |-> "context"]
            [] system = "end_pass_system" ->
                  MoveOutput(output_at, DOMAIN egui_context, "context", "full_output")
            [] system = "process_output_system" ->
                  MoveOutput(output_at, DOMAIN egui_context, "full_output", "render_output")
            [] system = "update_egui_textures_system" ->
                  MoveOutput(output_at, DOMAIN egui_context, "render_output", "store")
            [] OTHER -> output_at
    /\ UNCHANGED schedule

\* The schedule has run all its systems, the commands they left are applied,
\* and the next one starts; after the Render schedule the next frame starts.
NextSchedule ==
    /\ ~panicked /\ ~ctx_panicked
    /\ SystemsOf(Schedules[schedule]) \cup EngineSystemsOf(Schedules[schedule])
          \subseteq done
    /\ render_commands = <<>>
    /\ schedule' = IF schedule = Len(Schedules) THEN 1 ELSE schedule + 1
    /\ done' = IF schedule = Len(Schedules) THEN {} ELSE done
    /\ input_processed' = IF schedule = Len(Schedules) THEN {} ELSE input_processed
    /\ output_at' = IF schedule = Len(Schedules) THEN EmptyMap ELSE output_at
    /\ UNCHANGED <<varsU, varsT, varsG, varsI, varsC, varsL>>

\* The systems of the host, which this specification has in Update: they
\* spawn and despawn entities and insert the markers.
HostUpdate ==
    /\ Schedules[schedule] = "Update"
    /\ \/ \E i \in Indices : Spawn(i)
       \/ \E e \in Entities : InsertWindow(e, FALSE)
       \/ \E e \in Entities : InsertRenderToImage(e)
       \/ \E e \in Entities : Despawn(e)

AllSystems ==
    UNION {SystemsOf(Schedules[i]) \cup EngineSystemsOf(Schedules[i]) :
              i \in 1 .. Len(Schedules)}

NextS ==
    \/ \E system \in AllSystems : RunSystem(system)
    \/ NextSchedule
    \/ HostUpdate
    \/ ApplyRenderCommands

SpecSchedule == Init /\ [][NextS]_vars

(***************************************************************************)
(* The app.  The host adds its plugins, with a render sub-app or, where    *)
(* there is no graphics backend, without one; EguiPlugin is built and      *)
(* finished; an update runs the schedules of the main app and, where there *)
(* is one, of the render sub-app.  A system whose resource is missing does *)
(* not run: the executor skips it with a warning, or the fetch of the      *)
(* resource panics, as the engine's version has it.                        *)
(***************************************************************************)
\* The resources of the host's plugins that the plugin's systems ask for:
\* those of the asset and image plugins, and the event of bevy_picking,
\* which the host's plugins add where they include the picking plugins.
HostResources == {"Assets<Image>", "Events<AssetEvent<Image>>"}
PickingResources == {"Events<PointerHits>"}
EngineRenderResources ==
    {"RenderGraph", "RenderDevice", "RenderQueue", "PipelineCache", "ExtractedWindows",
     "RenderAssets<GpuImage>"}

\* The resources of its world that a system takes as Res or ResMut, or
\* through an EventReader or EventWriter.
ResourcesOf(system) ==
    CASE system = "capture_pointer_input" -> {"Events<PointerHits>"}
      [] system = "update_egui_textures_system" -> {"EguiManagedTextures", "Assets<Image>"}
      [] system = "free_egui_textures_system" ->
            {"EguiUserTextures", "EguiManagedTextures", "Assets<Image>",
             "Events<AssetEvent<Image>>"}
      [] system \in {"setup_new_window_nodes_system", "teardown_window_nodes_system",
                     "setup_new_render_to_image_nodes_system",
                     "teardown_render_to_image_nodes_system"} -> {"RenderGraph"}
      [] system = "prepare_egui_transforms_system" ->
            {"EguiTransforms", "RenderDevice", "RenderQueue", "EguiPipeline"}
      [] system = "queue_bind_groups_system" ->
            {"EguiUserTextures", "ExtractedEguiManagedTextures", "RenderDevice",
             "RenderAssets<GpuImage>", "EguiPipeline"}
      [] system = "queue_pipelines_system" ->
            {"PipelineCache", "SpecializedRenderPipelines<EguiPipeline>", "EguiPipeline",
             "ExtractedWindows", "RenderAssets<GpuImage>"}
      [] OTHER -> {}

\* add_systems(label, systems)
AddSystems(registry, label, systems) ==
    MapInsert(registry, label,
              IF label \in DOMAIN registry THEN registry[label] \cup systems ELSE systems)

\* EguiPlugin::build: the resources and the systems of the main app; the
\* extraction plugins add the extracted resources to the render sub-app if
\* there is one.
build(a) ==
    [a EXCEPT
        !.main_resources = @ \cup {"EguiManagedTextures", "EguiUserTextures"},
        !.render_resources =
            IF a.render_app
            THEN @ \cup {"EguiUserTextures", "ExtractedEguiManagedTextures"}
            ELSE @,
        !.main_systems =
            AddSystems(
              AddSystems(
                AddSystems(
                  AddSystems(
                    AddSystems(@, "PreStartup", InSet("InitContexts")),
                    "PreUpdate", SystemsOf("PreUpdate") \ InSet("InputSystem")),
                  "PostUpdate", SystemsOf("PostUpdate")),
                "Render", InSet("Prepare") \cup InSet("Queue")),
              "Last", SystemsOf("Last"))]

\* Mutant of finish: the render sub-app is taken to be there.
finish_expects_render_app(a) ==
    IF a.render_app
    THEN [a EXCEPT
            !.render_resources = @ \cup {"EguiPipeline",
                                         "SpecializedRenderPipelines<EguiPipeline>",
                                         "EguiTransforms"},
            !.render_systems =
                AddSystems(AddSystems(@, "ExtractSchedule", SystemsOf("ExtractSchedule")),
                           "Render", InSet("Prepare") \cup InSet("Queue"))]
    ELSE [a EXCEPT !.panicked = TRUE]

\* EguiPlugin::finish: if let Some(render_app) = app.get_sub_app_mut(RenderApp)
finish(a) ==
    IF a.render_app
    THEN [a EXCEPT
            !.render_resources = @ \cup {"EguiPipeline",
                                         "SpecializedRenderPipelines<EguiPipeline>",
                                         "EguiTransforms"},
            !.render_systems =
                AddSystems(AddSystems(@, "ExtractSchedule", SystemsOf("ExtractSchedule")),
                           "Render", InSet("Prepare") \cup InSet("Queue"))]
    ELSE a

\* The schedules an update runs, in order: those of the main app, the
\* startup ones in the first update only, then those of the render sub-app.
UpdateSchedules(a) ==
    (IF a.started THEN <<>> ELSE <<"PreStartup">>)
        \o <<"PreUpdate", "Update", "PostUpdate", "Last">>
        \o (IF a.render_app THEN <<"ExtractSchedule", "Render">> ELSE <<>>)

\* The systems of the schedule that is running, in the world that runs it.
RunningSystems(a) ==
    LET label == UpdateSchedules(a)[a.schedule]
        registry == IF label \in {"ExtractSchedule", "Render"} THEN a.render_systems
                    ELSE a.main_systems
    IN IF label \in DOMAIN registry THEN registry[label] ELSE {}
WorldResources(a) ==
    IF UpdateSchedules(a)[a.schedule] \in {"ExtractSchedule", "Render"}
    THEN a.render_resources ELSE a.main_resources

UnchangedByApp == UNCHANGED <<varsU, varsT, varsG, varsI, varsC, varsS, varsM, varsP>>

\* App::add_plugins(DefaultPlugins ..), with or without a graphics backend,
\* and with or without the picking plugins.
AddDefaultPlugins(render, picking) ==
    /\ app.stage = "new"
    /\ app' = [app EXCEPT
          !.render_app = render,
          !.stage = "plugins",
          !.main_resources = HostResources \cup (IF picking THEN PickingResources ELSE {}),
          !.render_resources = IF render THEN EngineRenderResources ELSE {}]
    /\ UnchangedByApp

\* App::add_plugins(EguiPlugin)
AddEguiPlugin ==
    /\ app.stage = "plugins"
    /\ app' = [build(app) EXCEPT !.stage = "built"]
    /\ UnchangedByApp

\* The first App::update finishes the plugins.
FinishPlugins ==
    /\ app.stage = "built"
    /\ app' = [finish(app) EXCEPT
                  !.stage = IF finish(app).panicked THEN "panicked" ELSE "finished"]
    /\ UnchangedByApp

BeginUpdate ==
    /\ app.stage = "finished"
    /\ app' = [app EXCEPT !.stage = "update", !.schedule = 1, !.ran = {}, !.skipped = {}]
    /\ UnchangedByApp

\* The executor comes to a system of the schedule whose predecessors have
\* run.  With its resources in the world the system runs.  With one missing
\* it does not: the executor passes over it with a warning, or the fetch of
\* the resource panics (the engine's parameter validation, not the
\* plugin's code).
RunAppSystem(system) ==
    /\ app.stage = "update"
    /\ system \in RunningSystems(app) \ app.ran
    /\ MustPrecede(system) \cap RunningSystems(app) \subseteq app.ran
    /\ IF ResourcesOf(system) \subseteq WorldResources(app)
       THEN app' = [app EXCEPT !.ran = @ \cup {system}]
       ELSE \/ app' = [app EXCEPT !.ran = @ \cup {system}, !.skipped = @ \cup {system}]
            \/ app' = [app EXCEPT !.stage = "panicked", !.panicked = TRUE]
    /\ UnchangedByApp

\* The schedule is through: the next one begins, or the update is over.
EndAppSchedule ==
    /\ app.stage = "update"
    /\ RunningSystems(app) \subseteq app.ran
    /\ app' = IF app.schedule < Len(UpdateSchedules(app))
              THEN [app EXCEPT !.schedule = @ + 1, !.ran = {}]
              ELSE [app EXCEPT !.stage = "finished", !.schedule = 0, !.ran = {},
                               !.started = TRUE, !.updated = TRUE]
    /\ UnchangedByApp

NextA ==
    \/ \E render, picking \in BOOLEAN : AddDefaultPlugins(render, picking)
    \/ AddEguiPlugin
    \/ FinishPlugins
    \/ BeginUpdate
    \/ \E system \in AllSystems : RunAppSystem(system)
    \/ EndAppSchedule

SpecPlugin == Init /\ [][NextA]_vars

(***************************************************************************)
(* The transform of one target: prepare_egui_transforms_system computes it *)
(* from the target's size and the scale factor of its settings.            *)
(***************************************************************************)
ComputeTransform ==
    /\ egui_transform = None
    /\ egui_transform' = Some(from_render_target_size(render_target_size,
                                                      egui_scale_factor))
    /\ UNCHANGED <<render_target_size, egui_scale_factor, varsU, varsT, varsG, varsI,
                   varsC, varsS, varsP, varsA>>

NextM == ComputeTransform

\* The other parts of the model are as they begin.
InitTransform ==
    /\ InitU /\ InitT /\ InitG /\ InitI /\ InitC /\ InitS /\ InitP /\ InitA
    /\ TransformInputs

SpecTransform == InitTransform /\ [][NextM]_vars

(***************************************************************************)
(* Properties of the texture bind groups.                                  *)
(***************************************************************************)
\* The step is a run of queue_bind_groups_system; the step that applies the
\* commands the run has left.
QueueBindGroupsStep == phase = "queue" /\ phase' = "queued"
BindGroupsInsertedStep == phase = "queued" /\ phase' = "pass"

\* The one command the run leaves: the insert of the map it built.
QueuesBindGroups(value) ==
    render_commands' = Append(render_commands,
                              [resource |-> "EguiTextureBindGroups", value |-> value])

\* The extracted textures whose image has a GpuImage.
ResolvableManaged == {k \in DOMAIN extracted_managed : extracted_managed[k] \in gpu_images}
ResolvableUser == {h \in DOMAIN extracted_user.textures : h \in gpu_images}

\* The ids of the extracted textures whose image has a GpuImage.
ResolvableIds ==
    {ManagedId(k[1], k[2]) : k \in ResolvableManaged}
        \cup {UserId(extracted_user.textures[h]) : h \in ResolvableUser}

\* C25: queue_bind_groups_system builds the cache anew in every frame: the
\* run queues the insert of a map that has a bind group under an id if and
\* only if the id is that of an extracted managed or user texture whose
\* image has a GpuImage in this frame, the others skipped without a panic;
\* and once the run's commands are applied, before the render graph runs,
\* the cache is that map, with no entry of the frame before left for a
\* texture that is gone or has no GpuImage.
C25_BindGroupsOfThisFrame ==
    [][/\ QueueBindGroupsStep =>
            /\ QueuesBindGroups(ResolvableIds)
            /\ ~panicked'
            /\ UNCHANGED <<extracted_managed, extracted_user, gpu_images>>
       /\ BindGroupsInsertedStep =>
            /\ bind_groups' = ResolvableIds
            /\ render_commands' = <<>>
            /\ UNCHANGED <<extracted_managed, extracted_user, gpu_images>>]_vars

\* The commands of a run have been applied: the cache has a bind group, the
\* run has skipped a managed texture without a GpuImage, and a user texture
\* that the frame before had skipped has its bind group.
C25_Witness ==
    /\ phase = "pass"
    /\ bind_groups = ResolvableIds
    /\ bind_groups # {}
    /\ queue_log.healed_textures # {}
    /\ ResolvableManaged # DOMAIN extracted_managed
    /\ \E k \in ManagedKeys : k \notin DOMAIN extracted_managed
    /\ ResolvableUser # {}

\* C29: on the render side the managed and the user textures do not collide:
\* the map of a run of queue_bind_groups_system, once inserted, has one bind
\* group for each extracted texture whose image has a GpuImage, so no two of
\* them share a
\* key, and the managed texture n of a target and the user texture n have
\* different keys, each in the cache when its own image has a GpuImage.
C29_ManagedAndUserIdsApart ==
    [][BindGroupsInsertedStep =>
        /\ Cardinality(bind_groups')
             = Cardinality(ResolvableManaged) + Cardinality(ResolvableUser)
        /\ \A k \in DOMAIN extracted_managed, h \in DOMAIN extracted_user.textures :
              /\ ManagedId(k[1], k[2]) # UserId(extracted_user.textures[h])
              /\ ManagedId(k[1], k[2]) \in bind_groups' <=> k \in ResolvableManaged
              /\ UserId(extracted_user.textures[h]) \in bind_groups' <=> h \in ResolvableUser]_vars

\* A managed texture and a user texture of the same number have been
\* queued in one frame, and so have the managed textures of that number of
\* two targets.
C29_Witness ==
    /\ phase = "pass"
    /\ \E n \in LocalIds :
          /\ {ManagedId(<<0, 0>>, n), ManagedId(<<1, 0>>, n), UserId(n)} \subseteq bind_groups
          /\ {<<<<0, 0>>, n>>, <<<<1, 0>>, n>>} \subseteq ResolvableManaged
          /\ \E h \in ResolvableUser : extracted_user.textures[h] = n

(***************************************************************************)
(* Properties of the extraction of the managed textures.                   *)
(***************************************************************************)
\* The steps of the render side of a frame.
ExtractTexturesStep == phase = "extract" /\ phase' = "queue"
RenderSideStep == phase \in {"extract", "queue", "queued"} /\ phase' # phase

\* C33: the extraction is a one-way snapshot of the managed texture store:
\* after it the render world's map has the keys (target, local id) of the
\* store and under each the handle the store has for it, and no step of the
\* render side changes the store or the image assets.
C33_ExtractionIsSnapshot ==
    [][/\ ExtractTexturesStep =>
            /\ DOMAIN extracted_managed' = DOMAIN egui_managed_textures
            /\ \A k \in DOMAIN egui_managed_textures :
                  extracted_managed'[k] = egui_managed_textures[k].handle
       /\ RenderSideStep =>
            UNCHANGED <<egui_managed_textures, image_assets, render_output>>]_vars

\* The extraction has copied the textures of two targets, one of them
\* uploaded again since it was first extracted.
C33_Witness ==
    /\ phase = "queue"
    /\ DOMAIN extracted_managed = DOMAIN egui_managed_textures
    /\ \E k1, k2 \in DOMAIN extracted_managed :
          /\ k1[1] # k2[1]
          /\ extracted_managed[k1] = egui_managed_textures[k1].handle
          /\ extracted_managed[k2] # extracted_managed[k1]
    /\ bind_groups # {}

(***************************************************************************)
(* Properties of the node labels.                                          *)
(***************************************************************************)
\* The labels of two targets are equal only if the entities' indices, their
\* generations and the kinds agree.
LabelsIdentifyTargets ==
    \A e1, e2 \in Entities :
        /\ from_window_entity(e1) = from_window_entity(e2) <=> e1 = e2
        /\ from_render_to_image_entity(e1) = from_render_to_image_entity(e2) <=> e1 = e2
        /\ from_window_entity(e1) # from_render_to_image_entity(e2)

\* The step leaves the node under the label where it is.
KeepsNode(label) == label \in DOMAIN render_graph => label \in DOMAIN render_graph'

\* What a run of a teardown system leaves of the nodes of an entity.
WindowTeardownKeeps(e) ==
    /\ KeepsNode(from_render_to_image_entity(e))
    /\ (e \notin removed_window) => KeepsNode(from_window_entity(e))
ImageTeardownKeeps(e) ==
    /\ KeepsNode(from_window_entity(e))
    /\ (e \notin removed_image) => KeepsNode(from_render_to_image_entity(e))

TeardownKeepsOtherNodes ==
    /\ (teardown_log'.system = "teardown_window_nodes_system")
          => (\A e \in Entities : WindowTeardownKeeps(e))
    /\ (teardown_log'.system = "teardown_render_to_image_nodes_system")
          => (\A e \in Entities : ImageTeardownKeeps(e))

\* C32: a node label identifies the entity's index, its generation and the
\* kind of target: two labels are equal if and only if the three agree.  So
\* a run of teardown_window_nodes_system removes no image node and no window
\* node of an entity other than those whose Window was removed, an entity
\* of the same index and another generation among them; and likewise for
\* teardown_render_to_image_nodes_system.
C32_LabelsScopedByEntityAndKind ==
    /\ []LabelsIdentifyTargets
    /\ [][TeardownKeepsOtherNodes]_vars

\* The window teardown has just removed the window node of an entity that
\* is still an image target, and the entity's image node is in the graph.
C32_Witness ==
    /\ teardown_log.system = "teardown_window_nodes_system"
    /\ \E e \in teardown_log.events :
          /\ from_window_entity(e) \in removed_nodes
          /\ from_window_entity(e) \notin DOMAIN render_graph
          /\ e \in render_to_image
          /\ from_render_to_image_entity(e) \in DOMAIN render_graph

(***************************************************************************)
(* Properties of the managed textures' keys.                               *)
(***************************************************************************)
\* The steps of the two texture systems.
UpdateTexturesStep == phase = "pass" /\ phase' = "last"
FreeTexturesStep == phase = "last" /\ phase' = "extract"

\* The store has the same under the key before and after the step.
SameManagedTexture(key) ==
    /\ key \in DOMAIN egui_managed_textures <=> key \in DOMAIN egui_managed_textures'
    /\ key \in DOMAIN egui_managed_textures
          => egui_managed_textures'[key] = egui_managed_textures[key]

\* The target's delta has an entry to set, or to free, the managed texture.
SetsTexture(e, n) ==
    /\ e \in Targets
    /\ \E i \in DOMAIN render_output[e].set : render_output[e].set[i].id = Managed(n)
FreesTexture(e, n) ==
    /\ e \in Targets
    /\ \E i \in DOMAIN render_output[e].free : render_output[e].free[i] = Managed(n)

\* C28: the managed texture ids are scoped per target: a run of
\* update_egui_textures_system or of free_egui_textures_system creates,
\* changes or removes the texture stored under (B, n) only by a delta of B
\* itself, whatever the deltas of the other targets do under the id n.
C28_ManagedIdsPerTarget ==
    [][/\ UpdateTexturesStep =>
            \A b \in TexEntities, n \in LocalIds :
                ~SetsTexture(b, n) => SameManagedTexture(<<b, n>>)
       /\ FreeTexturesStep =>
            \A b \in TexEntities, n \in LocalIds :
                ~FreesTexture(b, n) => SameManagedTexture(<<b, n>>)]_vars

\* Two targets have a texture of the same local id, each its own image, the
\* first target's uploaded after the second's.
C28_Witness ==
    \E n \in LocalIds :
        /\ {<<<<0, 0>>, n>>, <<<<1, 0>>, n>>} \subseteq DOMAIN egui_managed_textures
        /\ egui_managed_textures[<<<<0, 0>>, n>>].color_image
              # egui_managed_textures[<<<<1, 0>>, n>>].color_image
        /\ egui_managed_textures[<<<<0, 0>>, n>>].handle
              > egui_managed_textures[<<<<1, 0>>, n>>].handle
        /\ phase = "extract"

(***************************************************************************)
(* Properties of the pipelines.                                            *)
(***************************************************************************)
\* The step is a run of queue_pipelines_system; the step that applies the
\* commands the run has left.
QueuePipelinesStep == pphase = "queue" /\ pphase' = "queued"
PipelinesInsertedStep == pphase = "queued" /\ pphase' = "pass"

\* The targets of the frame whose key can be derived.
KeyedTargets == {t \in PipelineTargets : TargetKey(t) # None}

\* C26: after queue_pipelines_system, its insert of EguiPipelines applied,
\* every target whose format key can be
\* derived has an entry of EguiPipelines under its entity, the entries of
\* two targets with equal keys hold the same pipeline id, and the entries of
\* two targets with different keys hold different ids.
C26_PipelinePerTargetKey ==
    [][PipelinesInsertedStep =>
        /\ \A t \in KeyedTargets : t[1] \in DOMAIN egui_pipelines'
        /\ \A t, u \in KeyedTargets :
              (TargetKey(t) = TargetKey(u))
                 <=> (egui_pipelines'[t[1]] = egui_pipelines'[u[1]])]_vars

\* What C26 says, of the frames in which no entity is both a window and an
\* image target; there the entries are those of the keyed targets.
PipelinePerKeyOfSingleTargets ==
    [][PipelinesInsertedStep /\ (DOMAIN extracted_windows \cap DOMAIN image_targets = {}) =>
        /\ DOMAIN egui_pipelines' = {t[1] : t \in KeyedTargets}
        /\ \A t, u \in KeyedTargets :
              (TargetKey(t) = TargetKey(u))
                 <=> (egui_pipelines'[t[1]] = egui_pipelines'[u[1]])]_vars

\* C31: each entry of EguiPipelines is specialized for its own target's
\* format: after queue_pipelines_system, its insert of EguiPipelines
\* applied, a target has an entry exactly when it
\* is a window with a swap chain format or an image target whose image has a
\* GpuImage, and the entry holds the pipeline of that target's own key, also
\* when one entity is both a window and an image target.
C31_EntryOfOwnFormat ==
    [][PipelinesInsertedStep =>
        \A t \in PipelineTargets :
            /\ t[1] \in DOMAIN egui_pipelines' <=> TargetKey(t) # None
            /\ TargetKey(t) # None
                  => /\ TargetKey(t)[1] \in DOMAIN specialized_pipelines'
                     /\ egui_pipelines'[t[1]] = specialized_pipelines'[TargetKey(t)[1]]]_vars

\* What C31 says, of the frames in which no entity is both a window and an
\* image target.
EntryOfOwnFormatOfSingleTargets ==
    [][PipelinesInsertedStep /\ (DOMAIN extracted_windows \cap DOMAIN image_targets = {}) =>
        \A t \in PipelineTargets :
            /\ t[1] \in DOMAIN egui_pipelines' <=> TargetKey(t) # None
            /\ TargetKey(t) # None
                  => /\ TargetKey(t)[1] \in DOMAIN specialized_pipelines'
                     /\ egui_pipelines'[t[1]] = specialized_pipelines'[TargetKey(t)[1]]]_vars

\* The entities that are a window and an image target at once.
BothKinds == DOMAIN extracted_windows \cap DOMAIN image_targets

\* The map the run has just queued.
QueuedValue == render_commands'[Len(render_commands')].value

\* A run of queue_pipelines_system, and the step that applies its insert,
\* seen target by target, for the targets of the entities outside `apart`:
\* no entry is under the entity of a target whose format is not there, an
\* entry is under the entity of every target whose format is, the targets
\* that the run before had skipped among them; the run does not panic.
PipelineMissesHeal(apart) ==
    /\ QueuePipelinesStep =>
          /\ Len(render_commands') = Len(render_commands) + 1
          /\ render_commands'[Len(render_commands')].resource = "EguiPipelines"
          /\ \A t \in PipelineTargets :
                t[1] \notin apart =>
                   (t[1] \in DOMAIN QueuedValue <=> TargetKey(t) # None)
          /\ \A t \in queue_log.skipped_targets \cap KeyedTargets :
                t[1] \in DOMAIN QueuedValue
          /\ DOMAIN specialized_pipelines' =
                DOMAIN specialized_pipelines \cup {TargetKey(t)[1] : t \in KeyedTargets}
          /\ ~panicked'
    /\ PipelinesInsertedStep =>
          /\ \A t \in PipelineTargets :
                t[1] \notin apart =>
                   (t[1] \in DOMAIN egui_pipelines' <=> TargetKey(t) # None)
          /\ \A t \in queue_log.healed_targets : t[1] \in DOMAIN egui_pipelines'
          /\ ~panicked'

\* A run of queue_bind_groups_system, and the step that applies its insert,
\* seen texture by texture, managed and user: no bind group is under the id
\* of a texture whose image has no GpuImage, one is under the id of every
\* texture whose image has, the textures that the run before had skipped
\* among them; the run does not panic.
TextureMissesHeal ==
    /\ QueueBindGroupsStep =>
          /\ Len(render_commands') = Len(render_commands) + 1
          /\ render_commands'[Len(render_commands')].resource = "EguiTextureBindGroups"
          /\ \A p \in handles(extracted_managed, extracted_user) :
                p[1] \in QueuedValue <=> p[2] \in gpu_images
          /\ \A id \in queue_log.skipped_textures :
                id \in QueuedValue
                   <=> \E p \in handles(extracted_managed, extracted_user) :
                          p[1] = id /\ p[2] \in gpu_images
          /\ ~panicked'
    /\ BindGroupsInsertedStep =>
          /\ \A p \in handles(extracted_managed, extracted_user) :
                p[1] \in bind_groups' <=> p[2] \in gpu_images
          /\ \A id \in queue_log.healed_textures : id \in bind_groups'
          /\ ~panicked'

\* C27: a resource that is not there yet is waited for by the frames alone.
\* In a frame in which the format of a target is not there (a window
\* without a swap chain format, an image target whose image has no
\* GpuImage), the map a run of queue_pipelines_system queues, and that
\* EguiPipelines is once the insert is applied, has no entry for that
\* target, also when its entity is a target of the other kind as well; in
\* the first later frame in which the format is there it has one.  A run
\* of queue_bind_groups_system leaves no bind group for a texture whose
\* image has no GpuImage and one for every texture whose image has, the
\* textures that the run before had skipped among them.  Neither run
\* panics, and neither keeps anything about the things it skipped.
C27_MissesHealNextFrame ==
    [][PipelineMissesHeal({}) /\ TextureMissesHeal]_vars

\* What C27 says, of the targets whose entity is not both a window and an
\* image target, and of all the textures.
MissesHealOfSingleTargets ==
    [][PipelineMissesHeal(BothKinds) /\ TextureMissesHeal]_vars

\* A frame has ended in which an image target got its pipeline and a
\* texture its bind group, both skipped by the frame before, whose image
\* had no GpuImage then.
HealedFrame ==
    /\ phase = "pass" /\ pphase = "pass"
    /\ \E t \in queue_log.healed_targets :
          /\ t[2] = "Image"
          /\ t[1] \in DOMAIN egui_pipelines
    /\ \E id \in queue_log.healed_textures : id \in bind_groups

\* A frame has ended in which a managed texture got its bind group, skipped
\* by the frame before.
HealedManagedTexture ==
    /\ phase = "pass"
    /\ \E k \in DOMAIN extracted_managed :
          ManagedId(k[1], k[2]) \in queue_log.healed_textures \cap bind_groups

\* The insert of a run of queue_pipelines_system has been applied in a
\* frame in which an entity is a window with a swap chain format and an
\* image target whose image has no GpuImage: the entity has an entry.
EntryUnderUnloadedImageTarget ==
    /\ pphase = "pass"
    /\ \E e \in BothKinds :
          /\ WindowKey(e) # None /\ ImageKey(e) = None
          /\ e \in DOMAIN egui_pipelines
          /\ <<e, "Image">> \in queue_log.skipped_targets

(***************************************************************************)
(* Properties of the plugin in an app without a render sub-app.            *)
(***************************************************************************)
\* The host's plugins have brought the resources that the systems the
\* plugin adds to the main app take from them (DefaultPlugins with the asset,
\* image and picking plugins).
HostProvidesResources == HostResources \cup PickingResources \subseteq app.main_resources

\* The systems of the main app's schedules that lack a resource in a host
\* whose plugins are without the picking plugins.
ShortOfResource == {"capture_pointer_input"}

\* C30: the plugin tolerates a headless host.  Without a render sub-app,
\* finishing the plugin registers no render-side resource and no render-side
\* system and does not panic, no update runs a schedule of the render
\* sub-app, and, the host's plugins having brought the resources the
\* main-app systems take, the updates of the app run every system of the
\* main schedules, none passed over, without a panic.
C30_HeadlessHost ==
    ~app.render_app =>
        /\ app.render_resources = {}
        /\ app.render_systems = NoSystems
        /\ app.stage \in {"new", "plugins", "built"} => ~app.panicked
        /\ app.stage = "update" =>
              UpdateSchedules(app)[app.schedule] \notin {"ExtractSchedule", "Render"}
        /\ HostProvidesResources =>
              /\ ~app.panicked
              /\ app.stage # "panicked"
              /\ app.skipped = {}

\* In every host, headless or not, a system that is passed over is one whose
\* resource the host's plugins have not brought, and so is the system at
\* which an update panics: finishing the plugin never panics.
OnlyShortSystemsFail ==
    /\ app.skipped \subseteq ShortOfResource
    /\ app.panicked =>
          /\ ~HostProvidesResources
          /\ app.ran \cap ShortOfResource = {}
          /\ UpdateSchedules(app)[app.schedule] = "PostUpdate"

\* The plugin has been built and finished in an app without a render
\* sub-app whose host has brought the resources, and an update has run to
\* its end, capture_pointer_input among its systems.
C30_Witness ==
    /\ ~app.render_app
    /\ HostProvidesResources
    /\ app.stage = "finished"
    /\ app.updated
    /\ app.skipped = {}
    /\ {"update_egui_textures_system", "capture_pointer_input"}
          \subseteq app.main_systems["PostUpdate"]

\* An update of a headless app whose host is without the picking plugins
\* has run to its end with capture_pointer_input passed over.
PassedOverWithoutPicking ==
    /\ ~app.render_app
    /\ app.stage = "finished"
    /\ app.updated
    /\ app.skipped = {"capture_pointer_input"}

(***************************************************************************)
(* Properties of the transform.                                            *)
(***************************************************************************)
\* Twice an f32: the next exponent.
Twice(a) == IF a.class = "finite" THEN [a EXCEPT !.e = @ + 1] ELSE a

\* The size with its scale factor doubled.
DoubledTarget(size) == [size EXCEPT !.scale_factor = Twice(@)]

\* C22: for physical size (w, h), target scale factor s and settings scale
\* factor e the scale is (2 / (w/s/e), -2 / (h/s/e)) in the arithmetic of
\* f32 and the translation is (-1, 1); for (800, 600) and factors 1 the
\* scale is (2/800, -2/600), the f32 values 10737418 * 2^-32 and
\* -14316558 * 2^-32; with either factor doubled the logical size is half,
\* both components of the scale are twice as large and the translation is
\* the same.
C22_TransformOfTarget ==
    egui_transform # None =>
        LET t == egui_transform[1]
            w == render_target_size.physical_width
            h == render_target_size.physical_height
            s == render_target_size.scale_factor
            e == egui_scale_factor
            doubled_s == from_render_target_size(DoubledTarget(render_target_size), e)
            doubled_e == from_render_target_size(render_target_size, Twice(e))
        IN /\ t.scale[1] = F32Div(F32(2), F32Div(F32Div(w, s), e))
           /\ t.scale[2] = F32Div(F32(0 - 2), F32Div(F32Div(h, s), e))
           /\ t.translation = <<F32(0 - 1), F32(1)>>
           /\ (w = F32(800) /\ h = F32(600) /\ s = F32(1) /\ e = F32(1))
                 => /\ t.scale = <<F32Div(F32(2), F32(800)), F32Div(F32(0 - 2), F32(600))>>
                    /\ t.scale = <<Finite(FALSE, 10737418, 0 - 32),
                                   Finite(TRUE, 14316558, 0 - 32)>>
           /\ Twice(width(DoubledTarget(render_target_size))) = width(render_target_size)
           /\ Twice(height(DoubledTarget(render_target_size))) = height(render_target_size)
           /\ doubled_s.scale = <<Twice(t.scale[1]), Twice(t.scale[2])>>
           /\ doubled_e.scale = <<Twice(t.scale[1]), Twice(t.scale[2])>>
           /\ doubled_s.translation = t.translation
           /\ doubled_e.translation = t.translation

\* The transform of an 800 x 600 target with a target scale factor other
\* than 1 has been computed.
C22_Witness ==
    /\ egui_transform # None
    /\ render_target_size.physical_width = F32(800)
    /\ render_target_size.physical_height = F32(600)
    /\ render_target_size.scale_factor = F32(2)

(***************************************************************************)
(* Properties of the schedules.                                            *)
(***************************************************************************)
\* The step is a run of the system.
Runs(system) == system \notin done /\ system \in done'

\* The step is a run of the system, and the systems have run before it in
\* this frame.
RunsAfter(system, earlier) == Runs(system) => earlier \subseteq done

PassAfterInput == DOMAIN output_at \subseteq input_processed

\* C15: in PreUpdate the setup systems run first, then apply_deferred, then
\* update_contexts_system; process_input_system runs after them and after
\* the host's input systems; begin_pass_system runs after
\* process_input_system; and a target whose pass has begun in the tick has
\* had its input processed in the tick.
C15_PreUpdateOrder ==
    /\ []PassAfterInput
    /\ [][/\ RunsAfter("setup_render_to_image_handles_system", {"setup_new_windows_system"})
          /\ RunsAfter("apply_deferred", {"setup_new_windows_system",
                                          "setup_render_to_image_handles_system"})
          /\ RunsAfter("update_contexts_system", {"apply_deferred"})
          /\ RunsAfter("process_input_system", {"update_contexts_system", "InputSystem"})
          /\ RunsAfter("begin_pass_system", {"process_input_system"})]_vars

\* The pass of a target has begun in PreUpdate.
C15_Witness ==
    /\ Schedules[schedule] = "PreUpdate"
    /\ "begin_pass_system" \in done
    /\ \E e \in DOMAIN egui_context : e \in DOMAIN output_at /\ e \in input_processed

OutputInStore ==
    Schedules[schedule] \in {"ExtractSchedule", "Render"} =>
        \A e \in DOMAIN output_at \cap DOMAIN egui_context : output_at[e] = "store"

\* C16: process_output_system runs after end_pass_system and before
\* update_egui_textures_system, free_egui_textures_system runs after the
\* upload, and the extraction runs after all of them; when the extraction
\* runs, the output of every pass of the frame has reached the texture store.
C16_OutputBeforeExtraction ==
    /\ []OutputInStore
    /\ [][/\ RunsAfter("process_output_system", {"end_pass_system"})
          /\ RunsAfter("update_egui_textures_system", {"process_output_system"})
          /\ RunsAfter("free_egui_textures_system", {"update_egui_textures_system"})
          /\ \A system \in SystemsOf("ExtractSchedule") \cup SystemsOf("Render") :
                 RunsAfter(system, {"process_output_system", "update_egui_textures_system",
                                    "free_egui_textures_system"})]_vars

\* The extraction starts, and the output of a target's pass is in the store.
C16_Witness ==
    /\ Schedules[schedule] = "ExtractSchedule"
    /\ \E e \in DOMAIN egui_context : e \in DOMAIN output_at /\ output_at[e] = "store"

\* C17: the node setup and teardown systems run in the extraction schedule,
\* before prepare_egui_transforms_system, queue_bind_groups_system and
\* queue_pipelines_system, and the render graph runs after all of them.
C17_NodesBeforePreparation ==
    [][/\ \A system \in NodeSystems :
             Runs(system) => /\ Schedules[schedule] = "ExtractSchedule"
                             /\ done \cap SystemsOf("Render") = {}
       /\ \A system \in InSet("Prepare") \cup InSet("Queue") :
             RunsAfter(system, NodeSystems)
       /\ RunsAfter("render_graph",
                    NodeSystems \cup InSet("Prepare") \cup InSet("Queue"))]_vars

\* The render graph has run in the frame.
C17_Witness ==
    /\ Schedules[schedule] = "Render"
    /\ "render_graph" \in done
    /\ NodeSystems \subseteq done

(***************************************************************************)
(* Properties of the per-target state.                                     *)
(***************************************************************************)
\* The render targets: the entities with a Window or an EguiRenderToImage.
RenderTargets == windows \cup render_to_image

\* The entities with the full state bundle.
WithBundle == DOMAIN egui_context

\* The step is the run of the last system of the InitContexts chain.
InitContextsEnds == cphase = "flushed" /\ cphase' = "initialised"

\* C13: at the end of the InitContexts chain every render target has the
\* full state bundle, whenever its marker was added.
C13_TargetsHaveBundle ==
    [][InitContextsEnds =>
          \A e \in windows' \cup render_to_image' : e \in DOMAIN egui_context']_vars

\* The step is a run of a system of the InitContexts chain.
InitContextsStep ==
    cphase' # cphase /\ cphase' \in {"windows", "images", "flushed", "initialised"}

ContextsPreserved ==
    \A e \in WithBundle : e \in DOMAIN egui_context' /\ egui_context'[e] = egui_context[e]

NoInsertOnContext ==
    \A i \in 1 .. Len(commands) : commands[i] \notin WithBundle

CtxForEntityMutIsOwn ==
    \A e \in Entities :
        ctx_call' = [op |-> "ctx_for_entity_mut", entity |-> Some(e)] =>
            /\ \A q \in ContextsItems :
                  try_ctx_for_entity_mut(q, e)
                      = IF e \in WithBundle \cap RenderTargets THEN Some(e) ELSE None
            /\ IF e \in WithBundle \cap RenderTargets
               THEN egui_context' = [egui_context EXCEPT ![e] = "used"] /\ ~ctx_panicked'
               ELSE egui_context' = egui_context /\ ctx_panicked'

\* C14: the setup systems queue no insert for an entity that has an
\* EguiContext, so every step of InitContexts leaves the context of every
\* entity that has one as it is; and ctx_for_entity_mut(e) gives the context
\* stored on e, which is the only one the caller's change reaches.
C14_ContextsNotReplaced ==
    /\ []NoInsertOnContext
    /\ [][InitContextsStep => ContextsPreserved]_vars
    /\ [][CtxForEntityMutIsOwn]_vars

\* setup_new_windows_system has just run with Added<Window> matching an
\* entity whose context is in use, and has queued nothing for it.
C14_Witness ==
    /\ cphase = "windows"
    /\ ctx_call.op = "setup_new_windows_system"
    /\ \E e \in ctx_call.added :
           /\ e \in WithBundle
           /\ egui_context[e] = "used"
           /\ \A i \in 1 .. Len(commands) : commands[i] # e

\* The accessor's step leaves the contexts, the markers and the queued
\* commands as they are.
AccessorChangesNothing ==
    UNCHANGED <<egui_context, windows, render_to_image, alive, new_windows, new_images,
                commands, extracted_targets, egui_transforms, varsU, varsT, varsI>>

NoPrimaryContext == primary_window \cap WithBundle = {}

\* C21: when no primary window has an EguiContext, ctx_mut panics and
\* try_ctx_mut returns None; when the entity has no EguiContext,
\* ctx_for_entity_mut panics and try_ctx_for_entity_mut returns None; when one
\* of the entities has no EguiContext, ctx_for_entities_mut returns an error;
\* the fallible ones do not panic, and none of them changes the state.
C21_UninitialisedContext ==
    [][/\ (ctx_call'.op = "ctx_mut" /\ NoPrimaryContext)
             => ctx_panicked' /\ AccessorChangesNothing
       /\ (ctx_call'.op = "try_ctx_mut" /\ NoPrimaryContext)
             => ctx_call'.ret = None /\ ~ctx_panicked' /\ AccessorChangesNothing
       /\ \A e \in Entities \ WithBundle :
             /\ ctx_call' = [op |-> "ctx_for_entity_mut", entity |-> Some(e)]
                   => ctx_panicked' /\ AccessorChangesNothing
             /\ (ctx_call'.op = "try_ctx_for_entity_mut" /\ ctx_call'.entity = Some(e))
                   => ctx_call'.ret = None /\ ~ctx_panicked' /\ AccessorChangesNothing
       /\ (/\ ctx_call'.op = "ctx_for_entities_mut"
           /\ \E i \in DOMAIN ctx_call'.entity : ctx_call'.entity[i] \notin WithBundle)
             => ~ctx_call'.ret.ok /\ ~ctx_panicked' /\ AccessorChangesNothing]_vars

\* ctx_mut has panicked: no primary window has a context, while a window
\* that is not the primary one has.
C21_Witness ==
    /\ ctx_call.op = "ctx_mut"
    /\ ctx_panicked
    /\ NoPrimaryContext
    /\ WithBundle \cap windows # {}

\* A run of prepare_egui_transforms_system has ended.
Prepared == cphase = "prepared" /\ ctx_call.op = "prepare_egui_transforms_system"

\* The slot of the buffer that starts at the offset holds the transform of
\* the item's size and settings.
SlotHolds(offset, item) ==
    /\ offset % TransformStride = 0
    /\ (offset \div TransformStride) + 1 \in DOMAIN egui_transforms.buffer
    /\ egui_transforms.buffer[(offset \div TransformStride) + 1]
          = from_render_target_size(item.size, item.egui_settings.scale_factor)

\* C23: after a run of prepare_egui_transforms_system the offsets have an
\* entry for exactly the entities of the main world that have settings and
\* a size in the render world in this frame, every entry is the offset in
\* bytes of the slot that holds its target's own transform, no two targets
\* have the same offset, and no entry of an earlier frame is left for a
\* target that is gone.  The buffer has one slot for every item of the
\* query, the target's and that of an entity of the render world's own.
C23_OffsetsOfThisFrame ==
    Prepared =>
        LET offsets == egui_transforms.offsets
            items == ctx_call.items
        IN /\ DOMAIN offsets = extracted_targets
           /\ \A e \in DOMAIN offsets :
                 \E i \in DOMAIN items :
                     /\ items[i].window_main = Some(e)
                     /\ offsets[e] = (i - 1) * TransformStride
                     /\ SlotHolds(offsets[e], items[i])
           /\ \A e1, e2 \in DOMAIN offsets : e1 # e2 => offsets[e1] # offsets[e2]
           /\ Len(egui_transforms.buffer) = Len(items)
           /\ Len(items) = Cardinality(extracted_targets) + (IF render_only THEN 1 ELSE 0)

\* The run has cleared the entry of a target that is gone and has made the
\* entry of another, whose transform is in the first slot.
C23_Witness ==
    /\ Prepared
    /\ ctx_call.cleared \ DOMAIN egui_transforms.offsets # {}
    /\ \E e \in DOMAIN egui_transforms.offsets :
          /\ egui_transforms.offsets[e] = 0
          /\ egui_transforms.buffer[1]
                = from_render_target_size(TargetInputs(Some(e)).size, F32(1))

\* The run has given two targets their slots, the one of the higher index
\* the first, and the two transforms differ.
TwoTargetsPrepared ==
    /\ Prepared
    /\ \E e1, e2 \in DOMAIN egui_transforms.offsets :
          /\ e1[1] < e2[1]
          /\ egui_transforms.offsets[e2] = 0
          /\ egui_transforms.offsets[e1] = TransformStride
          /\ egui_transforms.buffer[1] # egui_transforms.buffer[2]

PrepareStep == ctx_call'.op = "prepare_egui_transforms_system"

\* C24: a run of prepare_egui_transforms_system keeps the bind group it has
\* when the id recorded with it is the id of the buffer, creates one only
\* when there is none or the ids differ, and when a buffer exists the id
\* recorded after the run is the id of the buffer.
C24_BindGroupFollowsBuffer ==
    [][PrepareStep =>
        LET before == egui_transforms.bind_group
            after == egui_transforms'.bind_group
            buffer == egui_transforms'.gpu_buffer
        IN /\ (buffer # None /\ before # None /\ before[1].id = buffer[1].id)
                 => after = before
           /\ after # before
                 => buffer # None /\ (before = None \/ before[1].id # buffer[1].id)
           /\ buffer # None => after # None /\ after[1].id = buffer[1].id
           /\ buffer = None => after = None]_vars

\* The buffer has grown once, the bind group was created again for it, and
\* the runs of the frames after that have kept it.
C24_Witness ==
    /\ Prepared
    /\ quiet = 2
    /\ egui_transforms.bind_group # None
    /\ egui_transforms.bind_group[1].serial = 2
    /\ egui_transforms.gpu_buffer[1].id = 2

\* C20: once the frame that follows the removal of a render target has run,
\* the entity whose marker is gone has no state bundle and no transform slot.
C20_RemovedTargetLeavesNothing ==
    (cphase = "prepared" /\ quiet = 2) =>
        \A e \in (removed_window \cup removed_image) \ RenderTargets :
            /\ e \notin WithBundle
            /\ e \notin DOMAIN egui_transforms.offsets

(***************************************************************************)
(* Properties of the IME transitions.                                      *)
(***************************************************************************)
Alternates(events) ==
    \A i \in 1 .. Len(events) :
        events[i] = IF i % 2 = 1 THEN "Enabled" ELSE "Disabled"

ImeFlagMatches ==
    \A e \in TexEntities :
        /\ Alternates(ime_sent[e])
        /\ has_sent_ime_enabled[e]
              <=> (ime_sent[e] # <<>> /\ ime_sent[e][Len(ime_sent[e])] = "Enabled")

ImeEdgeTriggered ==
    \A e \in TexEntities :
        /\ (ime_call'.op = "ime_event_enable" /\ ime_call'.target = Some(e)) =>
              IF has_sent_ime_enabled[e]
              THEN ime_sent'[e] = ime_sent[e] /\ egui_input_events'[e] = egui_input_events[e]
              ELSE /\ ime_sent'[e] = Append(ime_sent[e], "Enabled")
                   /\ egui_input_events'[e] = Append(egui_input_events[e], "Enabled")
        /\ (ime_call'.op = "ime_event_disable" /\ ime_call'.target = Some(e)) =>
              IF ~has_sent_ime_enabled[e]
              THEN ime_sent'[e] = ime_sent[e] /\ egui_input_events'[e] = egui_input_events[e]
              ELSE /\ ime_sent'[e] = Append(ime_sent[e], "Disabled")
                   /\ egui_input_events'[e] = Append(egui_input_events[e], "Disabled")
        /\ (ime_call'.op = "take" /\ ime_call'.target = Some(e)) =>
              has_sent_ime_enabled'[e] = has_sent_ime_enabled[e]

\* C12: on every target the Ime events pushed over time alternate Enabled,
\* Disabled, Enabled, ... from Enabled on; a call that repeats the state (a
\* second enable, a second disable, a disable before any enable) pushes
\* nothing; and has_sent_ime_enabled is true exactly when the last event
\* pushed was Enabled, whether or not the input has been taken since.
C12_ImeEdgeTriggered ==
    []ImeFlagMatches /\ [][ImeEdgeTriggered]_vars

\* A target has been enabled, disabled and enabled again, its input was
\* taken in between, and the latest call on it was an enable that repeated
\* the state and pushed nothing.
C12_Witness ==
    \E e \in TexEntities :
        /\ ime_call = [op |-> "ime_event_enable", target |-> Some(e)]
        /\ ime_sent[e] = <<"Enabled", "Disabled", "Enabled">>
        /\ egui_input_events[e] = <<>>

(***************************************************************************)
(* Properties of the render-graph synchronisation.                         *)
(***************************************************************************)
\* The Egui nodes of the render graph.
EguiNodes == DOMAIN render_graph \ {CameraDriverLabel}

\* The nodes of the live render targets.
LiveTargetNodes ==
    {from_window_entity(e) : e \in windows}
        \cup {from_render_to_image_entity(e) : e \in render_to_image}

\* The extraction schedule has run since the main world last changed.
Settled == gphase = "settled" /\ ~panicked

\* C1: once the setup and teardown systems have run for the frame, the Egui
\* nodes of the render graph are the nodes of the live render targets, one
\* each: no live target lacks its node, and no node is of a removed target.
C1_NodesMatchLiveTargets ==
    Settled => /\ EguiNodes = LiveTargetNodes
               /\ Cardinality(EguiNodes)
                     = Cardinality(windows) + Cardinality(render_to_image)

\* The target of a label has its marker component.
HasMarker(label) ==
    IF label[3] = "Window" THEN <<label[1], label[2]>> \in windows
    ELSE <<label[1], label[2]>> \in render_to_image

EguiLabels == {from_window_entity(e) : e \in Entities}
                 \cup {from_render_to_image_entity(e) : e \in Entities}

NoNodeWithoutMarker == \A label \in EguiNodes : HasMarker(label)

StaysAbsent ==
    \A label \in EguiLabels :
        (~HasMarker(label) /\ label \notin EguiNodes /\ ~HasMarker(label)')
            => label \notin EguiNodes'

\* C2: when the marker of a target has been removed, or its entity
\* despawned, the render graph has no node of that (entity, kind) once the
\* extraction schedule has run, and while the marker is not added again no
\* step brings the node back.
C2_RemovedTargetLosesNode ==
    [](Settled => NoNodeWithoutMarker) /\ [][StaysAbsent]_vars

\* A teardown system has taken out the node of a target that has lost its
\* marker, and the schedule has run to its end.
C2_Witness ==
    /\ Settled
    /\ \E label \in removed_nodes : ~HasMarker(label) /\ label \notin EguiNodes

\* The node under the label records exactly the edges, and each edge is
\* recorded at the node of its other end too.
WiredAs(label, inputs, outputs) ==
    /\ render_graph[label].input = inputs
    /\ render_graph[label].output = outputs
    /\ \A edge \in inputs :
           edge[1] \in DOMAIN render_graph /\ edge \in render_graph[edge[1]].output
    /\ \A edge \in outputs :
           edge[2] \in DOMAIN render_graph /\ edge \in render_graph[edge[2]].input

\* C18: every window node of the render graph has the one edge camera driver
\* -> node, and every render-to-image node the one edge node -> camera
\* driver, whenever the setup systems have returned.
C18_NodesWiredToCameraDriver ==
    ~panicked =>
        \A label \in EguiNodes :
            IF label[3] = "Window"
            THEN WiredAs(label, {<<CameraDriverLabel, label>>}, {})
            ELSE WiredAs(label, {}, {<<label, CameraDriverLabel>>})

\* The setup systems have added a window node and an image node.
C18_Witness ==
    /\ Settled
    /\ \E label \in EguiNodes : label[3] = "Window"
    /\ \E label \in EguiNodes : label[3] = "Image"
    /\ render_graph[CameraDriverLabel].input # {}
    /\ render_graph[CameraDriverLabel].output # {}

\* The events of the teardown run for which the graph had no node.
MissingNodeEvents(log) ==
    {e \in log.events :
        (IF log.system = "teardown_window_nodes_system"
         THEN from_window_entity(e) ELSE from_render_to_image_entity(e))
            \notin DOMAIN render_graph}

\* The nodes of the events of the teardown run.
EventNodes(log) ==
    {IF log.system = "teardown_window_nodes_system"
     THEN from_window_entity(e) ELSE from_render_to_image_entity(e) : e \in log.events}

TeardownOfMissingNode ==
    teardown_log'.system # "none" /\ MissingNodeEvents(teardown_log') # {}

TeardownIsIdempotent ==
    TeardownOfMissingNode =>
        /\ ~panicked'
        /\ DOMAIN render_graph' = DOMAIN render_graph \ EventNodes(teardown_log')
        /\ MissingNodeEvents(teardown_log') = teardown_log'.events
               => render_graph' = render_graph

\* C19: a teardown run that reads a removal event of a target without a
\* node leaves the graph as it would be without the event, does not panic,
\* removes the nodes of the other events, and logs an error for the event.
C19_TeardownLogsMissingNode ==
    [][TeardownIsIdempotent
        /\ (TeardownOfMissingNode =>
               teardown_log'.errors >= Cardinality(MissingNodeEvents(teardown_log')))]_vars

\* What the teardown systems do: the run leaves the graph as it would be
\* without the event, does not panic, removes the nodes of the other
\* events, and logs nothing, remove_node having returned Ok.
TeardownOfMissingNodeIsSilent ==
    [][TeardownIsIdempotent
        /\ (TeardownOfMissingNode => teardown_log'.errors = 0)]_vars

\* A teardown run has read two events, one of a target without a node and
\* one of a target whose node it removed, and has logged nothing.
SilentTeardownOfMissingNode ==
    /\ teardown_log.system # "none"
    /\ ~panicked
    /\ teardown_log.errors = 0
    /\ \E e1, e2 \in teardown_log.events :
           LET n1 == IF teardown_log.system = "teardown_window_nodes_system"
                     THEN from_window_entity(e1) ELSE from_render_to_image_entity(e1)
               n2 == IF teardown_log.system = "teardown_window_nodes_system"
                     THEN from_window_entity(e2) ELSE from_render_to_image_entity(e2)
           IN n1 \notin removed_nodes /\ n2 \in removed_nodes

(***************************************************************************)
(* Properties of the user-texture registry.                                *)
(***************************************************************************)
Registered == DOMAIN egui_user_textures.textures
Assigned == UNION {idsOf[h] : h \in Handles}

\* C3: add_image is idempotent per handle.  For a handle that add_image has
\* seen before: while it is still registered (nothing removed it since) the
\* call returns the same User id again and leaves the counter alone; once it
\* was removed, the call returns an id different from the one before.
C3_AddImageIdempotent ==
    [][\A h \in Handles :
          (call'.op = "add_image" /\ call'.image = h /\ lastId[h] # None) =>
              IF h \in Registered
              THEN /\ ret' = lastId[h][1]
                   /\ egui_user_textures'.last_texture_id
                          = egui_user_textures.last_texture_id
              ELSE ret' # lastId[h][1]]_vars

\* A handle was registered, removed and registered again, and the last call
\* returned its current id.
C3_Witness ==
    /\ call.op = "add_image"
    /\ Cardinality(idsOf[call.image]) >= 2
    /\ call.image \in Registered
    /\ ret = User(egui_user_textures.textures[call.image])

C4_IdsBelowCounterAndDistinct ==
    /\ \A h \in Registered :
          egui_user_textures.textures[h] < egui_user_textures.last_texture_id
    /\ \A g, h \in Registered :
          g # h => egui_user_textures.textures[g] # egui_user_textures.textures[h]

C4_StepKeepsHistory ==
    /\ egui_user_textures'.last_texture_id >= egui_user_textures.last_texture_id
    /\ \A h \in DOMAIN egui_user_textures'.textures :
          IF h \in Registered
          THEN egui_user_textures'.textures[h] = egui_user_textures.textures[h]
          ELSE egui_user_textures'.textures[h] \notin Assigned

\* C4: user texture ids are unique for the whole history.  The counter never
\* decreases, every registered id is below the counter, no two registered
\* handles share an id, a registered handle keeps its id, and a new
\* registration never gets an id that was assigned before.
C4_UserIdsUnique ==
    []C4_IdsBelowCounterAndDistinct /\ [][C4_StepKeepsHistory]_vars

\* More ids have been assigned than handles are registered now, and a handle
\* has just been registered again after a removal.
C4_Witness ==
    /\ call.op = "add_image"
    /\ Cardinality(Assigned) = 3
    /\ Cardinality(Registered) = 2
    /\ \E h \in Handles : Cardinality(idsOf[h]) >= 2

\* C5: remove_image(handle) returns Some(id) and removes the mapping when the
\* handle is registered, returns None and changes nothing when it is not; in
\* both cases image_id(handle) is None afterwards, and the mappings of the
\* other handles are as before.
C5_RemoveImage ==
    [][\A h \in Handles :
          (call'.op = "remove_image" /\ call'.image = h) =>
              /\ h \in Registered =>
                     ret' = Some(User(egui_user_textures.textures[h]))
              /\ h \notin Registered =>
                     ret' = None /\ egui_user_textures' = egui_user_textures
              /\ image_id(egui_user_textures', h) = None
              /\ \A g \in Handles \ {h} :
                     image_id(egui_user_textures', g) = image_id(egui_user_textures, g)]_vars

\* remove_image has just removed a registered handle while another handle
\* stays registered.
C5_Witness ==
    /\ call.op = "remove_image"
    /\ ret # None
    /\ call.image \notin Registered
    /\ Registered # {}

\* C11: a run of free_egui_textures_system removes the mapping of every
\* image asset whose AssetEvent::Removed it reads, so that image_id returns
\* None for it, and leaves the mappings of all other handles and the id
\* counter as they were.
C11_RemovedAssetIsUnregistered ==
    [][call'.op = "free_egui_textures_system" =>
          /\ \A h \in image_events :
                 /\ h \notin DOMAIN egui_user_textures'.textures
                 /\ image_id(egui_user_textures', h) = None
          /\ \A g \in Handles \ image_events :
                 image_id(egui_user_textures', g) = image_id(egui_user_textures, g)
          /\ egui_user_textures'.last_texture_id
                 = egui_user_textures.last_texture_id]_vars

\* The system has just read the removal of an asset that was registered and
\* has taken its mapping out, while another handle stays registered.
C11_Witness ==
    /\ call.op = "free_egui_textures_system"
    /\ \E h \in call.removed : h \in call.events /\ h \notin Registered
    /\ Registered # {}

(***************************************************************************)
(* Properties of the texture manager.                                      *)
(***************************************************************************)
UpdateStep == phase = "pass" /\ phase' = "last"
FreeStep == phase = "last" /\ phase' = "extract"
ExtractStep == phase = "extract" /\ phase' = "queue"
\* The bind groups that queue_bind_groups_system has queued take the place
\* of the cache.
QueueStep == BindGroupsInsertedStep

IsFull(entry, n) == entry.id = Managed(n) /\ entry.pos = None
IsPatch(entry, n) == entry.id = Managed(n) /\ entry.pos # None
ManagedNumbers == {t[2] : t \in {u \in TextureIds : u[1] = "Managed"}}

\* Entry k is the last entry of the list d that names Managed(n).
LastFor(d, k, n) == \A j \in (k + 1) .. Len(d) : d[j].id # Managed(n)

\* The full upload in d before entry k that is the latest entry on Managed(n)
\* before k, if any; 0 if no entry before k names Managed(n); -1 otherwise.
FullBefore(d, k, n) ==
    IF \A j \in 1 .. (k - 1) : d[j].id # Managed(n) THEN 0
    ELSE LET j == CHOOSE i \in 1 .. (k - 1) :
                      /\ d[i].id = Managed(n)
                      /\ \A m \in (i + 1) .. (k - 1) : d[m].id # Managed(n)
         IN IF d[j].pos = None THEN j ELSE 0 - 1

\* `new` is `base` with the rectangle [x, x+W) x [y, y+H) taken from `sub`.
OverwrittenBy(new, base, pos, sub) ==
    /\ new.size = base.size
    /\ Len(new.pixels) = Len(base.pixels)
    /\ \A px \in 0 .. (Width(base) - 1), py \in 0 .. (Height(base) - 1) :
          Pixel(new, px, py) =
              IF /\ pos[1] <= px /\ px < pos[1] + Width(sub)
                 /\ pos[2] <= py /\ py < pos[2] + Height(sub)
              THEN Pixel(sub, px - pos[1], py - pos[2])
              ELSE Pixel(base, px, py)

\* C6: a full upload of managed id (target, n) followed by a patch at (x, y)
\* with a W-by-H sub-image leaves the stored pixel buffer equal to the full
\* image with exactly the rectangle [x, x+W) x [y, y+H) overwritten.  The full
\* upload is either the entry before the patch in the same delta or the
\* texture stored by an earlier frame.
C6_PatchOverwritesRect ==
    [][(UpdateStep /\ ~panicked') =>
          \A e \in Targets, n \in ManagedNumbers :
              LET d == render_output[e].set IN
              \A k \in 1 .. Len(d) :
                  (IsPatch(d[k], n) /\ LastFor(d, k, n)) =>
                      LET b == FullBefore(d, k, n) IN
                      /\ b > 0 =>
                            OverwrittenBy(egui_managed_textures'[<<e, n>>].color_image,
                                          d[b].image, d[k].pos[1], d[k].image)
                      /\ (b = 0 /\ <<e, n>> \in DOMAIN egui_managed_textures) =>
                            OverwrittenBy(egui_managed_textures'[<<e, n>>].color_image,
                                          egui_managed_textures[<<e, n>>].color_image,
                                          d[k].pos[1], d[k].image)]_vars

\* ImgA with SubWide written at (1, 1) is stored.
C6_Witness ==
    /\ phase = "last" /\ ~panicked
    /\ \E key \in DOMAIN egui_managed_textures :
          egui_managed_textures[key].color_image =
              [size |-> <<3, 2>>, pixels |-> <<1, 2, 3, 4, 8, 9>>]

\* Entry k of target e's list is a patch of a texture that is not stored when
\* the loop reaches it.
Missing(e, d, k) ==
    /\ d[k].id[1] = "Managed" /\ d[k].pos # None
    /\ <<e, d[k].id[2]>> \notin DOMAIN egui_managed_textures
    /\ \A j \in 1 .. (k - 1) : ~IsFull(d[j], d[k].id[2])

MissingPatches ==
    {ek \in UNION {{e} \X (1 .. Len(render_output[e].set)) : e \in Targets} :
        Missing(ek[1], render_output[ek[1]].set, ek[2])}

ManagedEntries ==
    {ek \in UNION {{e} \X (1 .. Len(render_output[e].set)) : e \in Targets} :
        render_output[ek[1]].set[ek[2]].id[1] = "Managed"}

\* C7: a patch for a managed id with no stored texture is a no-op on the
\* store.  If the patches of a frame are all of this kind nothing panics; each
\* of them is reported by one warning and adds no image asset (every other
\* managed entry adds one); the id gets no entry unless the same delta also
\* uploads it in full; and the full uploads of the same delta are applied.
C7_PatchOfMissingTexture ==
    [][(UpdateStep /\ MissingPatches # {}) =>
          /\ (\A ek \in ManagedEntries :
                 render_output[ek[1]].set[ek[2]].pos # None => ek \in MissingPatches)
               => ~panicked'
          /\ ~panicked' =>
               /\ warnings' = Cardinality(MissingPatches)
               /\ Cardinality(DOMAIN image_assets') =
                      Cardinality(DOMAIN image_assets)
                          + Cardinality(ManagedEntries) - Cardinality(MissingPatches)
               /\ \A ek \in MissingPatches :
                      LET e == ek[1]
                          d == render_output[e].set
                          n == d[ek[2]].id[2]
                      IN /\ (\A j \in 1 .. Len(d) : ~IsFull(d[j], n)) =>
                                <<e, n>> \notin DOMAIN egui_managed_textures'
                         /\ \A j \in 1 .. Len(d), m \in ManagedNumbers :
                                (IsFull(d[j], m) /\ LastFor(d, j, m)) =>
                                    /\ <<e, m>> \in DOMAIN egui_managed_textures'
                                    /\ egui_managed_textures'[<<e, m>>].color_image
                                           = d[j].image]_vars

\* The last run warned about a patch and, from the same frame, stored a full
\* upload, and did not panic.
C7_Witness ==
    /\ phase = "last" /\ ~panicked
    /\ warnings = 1
    /\ next_asset = 1
    /\ Cardinality(DOMAIN egui_managed_textures) = 1

\* C8: an entry without an offset for managed id (target, n) is a full
\* upload: afterwards the store's entry for (target, n) holds the delta's image
\* and a handle to an image asset added by this run, made from that image,
\* whether or not an entry existed before.
C8_FullUploadReplaces ==
    [][(UpdateStep /\ ~panicked') =>
          \A e \in Targets, n \in ManagedNumbers :
              LET d == render_output[e].set IN
              \A k \in 1 .. Len(d) :
                  (IsFull(d[k], n) /\ LastFor(d, k, n)) =>
                      /\ <<e, n>> \in DOMAIN egui_managed_textures'
                      /\ LET t == egui_managed_textures'[<<e, n>>] IN
                         /\ t.color_image = d[k].image
                         /\ t.handle \notin DOMAIN image_assets
                         /\ t.handle \in DOMAIN image_assets'
                         /\ image_assets'[t.handle] = color_image_as_bevy_image(d[k].image)]_vars

\* A second full upload has replaced the first: the entry holds ImgB under a
\* later handle than the first upload's.
C8_Witness ==
    /\ phase = "last" /\ ~panicked
    /\ \E key \in DOMAIN egui_managed_textures :
          /\ egui_managed_textures[key].color_image = ImgB
          /\ egui_managed_textures[key].handle = 1
          /\ 0 \in DOMAIN image_assets
          /\ image_assets[0] = color_image_as_bevy_image(ImgA)

InList(x, list) == \E k \in 1 .. Len(list) : list[k] = x

\* C9: freeing a managed id through a target's delta removes the entry of
\* (target, id) and the image asset behind it; the extraction that follows
\* copies exactly the keys left in the store, and the bind groups queued after
\* it are built only for extracted keys, so none is built for the freed id.
C9_FreeRemovesTextureAndAsset ==
    [][/\ FreeStep =>
            \A e \in Targets, n \in ManagedNumbers :
                InList(Managed(n), render_output[e].free) =>
                    /\ <<e, n>> \notin DOMAIN egui_managed_textures'
                    /\ <<e, n>> \in DOMAIN egui_managed_textures =>
                           egui_managed_textures[<<e, n>>].handle
                               \notin DOMAIN image_assets'
       /\ ExtractStep =>
            DOMAIN extracted_managed' = DOMAIN egui_managed_textures
       /\ QueueStep =>
            \A b \in bind_groups' :
                b[1] = "Managed" =>
                    /\ <<b[2], b[3]>> \in DOMAIN extracted_managed
                    /\ <<b[2], b[3]>> \in DOMAIN egui_managed_textures]_vars

\* A texture that was uploaded has been freed, its asset removed, and the
\* frame has been extracted and queued without a bind group.
C9_Witness ==
    /\ phase = "pass" /\ ~panicked
    /\ image_events # {}
    /\ image_events \cap DOMAIN image_assets = {}
    /\ egui_managed_textures = EmptyMap
    /\ extracted_managed = EmptyMap
    /\ bind_groups = {}
    /\ call.op = "free_egui_textures_system"

\* C10: a managed texture is destroyed with its render target.  Once a frame
\* has run in full after the target's entity was despawned (update, free,
\* extraction, queue), the store has no entry keyed by that target and no
\* bind group has been built for such an entry.
C10_TexturesDieWithTarget ==
    [][QueueStep =>
          /\ \A key \in DOMAIN egui_managed_textures' : key[1] \notin despawned'
          /\ \A b \in bind_groups' : b[1] = "Managed" => b[2] \notin despawned']_vars

\* The image asset of the texture stored under the key.
AssetOf(textures, assets, key) == assets[textures[key].handle]

\* C34: the entries of one target's delta are applied in the order of the
\* list.  Where a full upload of (target, n) is followed at once by a patch of
\* n, the two being the last entries on n, the texture ends as the uploaded
\* image with the patch's rectangle overwritten; where a patch of n with no
\* texture to patch is followed at once by the full upload of n, the patch is
\* dropped with a warning and the texture ends as the uploaded image.
C34_EntriesAppliedInOrder ==
    [][(UpdateStep /\ ~panicked') =>
          \A e \in Targets, n \in ManagedNumbers :
              LET d == render_output[e].set IN
              \A k \in 1 .. (Len(d) - 1) :
                  LastFor(d, k + 1, n) =>
                      /\ (IsFull(d[k], n) /\ IsPatch(d[k + 1], n)) =>
                            /\ <<e, n>> \in DOMAIN egui_managed_textures'
                            /\ OverwrittenBy(egui_managed_textures'[<<e, n>>].color_image,
                                             d[k].image, d[k + 1].pos[1], d[k + 1].image)
                            /\ egui_managed_textures'[<<e, n>>].color_image # d[k].image
                            /\ AssetOf(egui_managed_textures', image_assets', <<e, n>>).data
                                  = egui_managed_textures'[<<e, n>>].color_image.pixels
                      /\ (IsPatch(d[k], n) /\ Missing(e, d, k) /\ IsFull(d[k + 1], n)) =>
                            /\ warnings' >= 1
                            /\ <<e, n>> \in DOMAIN egui_managed_textures'
                            /\ egui_managed_textures'[<<e, n>>].color_image = d[k + 1].image
                            /\ AssetOf(egui_managed_textures', image_assets', <<e, n>>)
                                  = color_image_as_bevy_image(d[k + 1].image)]_vars

\* A texture no extraction has seen yet, so uploaded by the last run, is the
\* first image with the wide patch in its lower right corner: the run had the
\* upload and the patch in one delta.
C34_Witness ==
    /\ phase = "last" /\ ~panicked /\ warnings = 0
    /\ next_asset = 2
    /\ \E key \in DOMAIN egui_managed_textures :
          /\ key \notin DOMAIN extracted_managed
          /\ egui_managed_textures[key].handle = 1
          /\ egui_managed_textures[key].color_image.pixels = <<1, 2, 3, 4, 8, 9>>
          /\ image_assets[0].data = ImgA.pixels
          /\ image_assets[1].data = <<1, 2, 3, 4, 8, 9>>

\* The other order: the last run dropped a patch and stored the upload that
\* followed it.
PatchBeforeUploadReached ==
    /\ phase = "last" /\ ~panicked /\ warnings = 1
    /\ next_asset = 1 /\ emitted = 2
    /\ \E key \in DOMAIN egui_managed_textures :
          /\ key \notin DOMAIN extracted_managed
          /\ egui_managed_textures[key].color_image = ImgA
          /\ render_output[key[1]].set = <<>>

\* What a run of update_egui_textures_system, and of free_egui_textures_system,
\* would make of the state the step leaves.
UpdatedAgain(order) ==
    UpdateTargets([textures |-> egui_managed_textures', assets |-> image_assets',
                   next |-> next_asset', warnings |-> 0, panicked |-> FALSE,
                   outputs |-> render_output'],
                  order)
FreedAgain(order) ==
    FreeTargets([textures |-> egui_managed_textures', assets |-> image_assets',
                 removed |-> {}, outputs |-> render_output'],
                order)

NothingToSet == \A e \in Targets : render_output[e].set = <<>>
NothingToFree == \A e \in Targets : render_output[e].free = <<>>

\* C35: a delta is applied at most once.  update_egui_textures_system leaves
\* every target's list of uploads empty and free_egui_textures_system every
\* list of frees; a run of either on the state it left, and a run in a later
\* frame in which no pass wrote a new entry, changes neither the managed
\* textures nor the image assets.
C35_DeltaAppliedOnce ==
    [][/\ (UpdateStep /\ ~panicked') =>
            /\ \A e \in DOMAIN render_output' : render_output'[e].set = <<>>
            /\ \A order \in Orders(DOMAIN render_output') :
                  /\ UpdatedAgain(order).textures = egui_managed_textures'
                  /\ UpdatedAgain(order).assets = image_assets'
                  /\ UpdatedAgain(order).next = next_asset'
       /\ FreeStep =>
            /\ \A e \in DOMAIN render_output' : render_output'[e].free = <<>>
            /\ \A order \in Orders(DOMAIN render_output') :
                  /\ FreedAgain(order).textures = egui_managed_textures'
                  /\ FreedAgain(order).assets = image_assets'
       /\ (UpdateStep /\ NothingToSet) =>
            UNCHANGED <<egui_managed_textures, image_assets, next_asset>>
       /\ (FreeStep /\ NothingToFree) =>
            UNCHANGED <<egui_managed_textures, image_assets>>]_vars

\* The two systems have run in a frame after the one that uploaded a
\* texture, with no entry written since: the lists are empty and the texture
\* and its asset are the ones the extraction of the earlier frame saw.
C35_Witness ==
    /\ phase = "extract" /\ ~panicked
    /\ emitted = 2
    /\ \A e \in Targets : render_output[e] = NoDelta
    /\ Cardinality(DOMAIN image_assets) = 1
    /\ \E key \in DOMAIN egui_managed_textures :
          /\ key \in DOMAIN extracted_managed
          /\ extracted_managed[key] = egui_managed_textures[key].handle
          /\ egui_managed_textures[key].handle \in DOMAIN image_assets

\* The deltas without their entries for user ids.
IsManagedEntry(entry) == entry.id[1] = "Managed"
IsManagedId(texture_id) == texture_id[1] = "Managed"
ManagedOnly(outputs) ==
    [e \in DOMAIN outputs |->
        [set |-> SelectSeq(outputs[e].set, IsManagedEntry),
         free |-> SelectSeq(outputs[e].free, IsManagedId)]]

OnlyUserSets ==
    \A e \in Targets : \A i \in DOMAIN render_output[e].set :
        render_output[e].set[i].id[1] = "User"
OnlyUserFrees ==
    \A e \in Targets : \A i \in DOMAIN render_output[e].free :
        render_output[e].free[i][1] = "User"

\* The registry has every image it had, under the id it had, bar those whose
\* asset was removed, and its counter is the same.
RegistryKept ==
    /\ egui_user_textures'.last_texture_id = egui_user_textures.last_texture_id
    /\ DOMAIN egui_user_textures'.textures = DOMAIN egui_user_textures.textures \ image_events
    /\ \A h \in DOMAIN egui_user_textures'.textures :
          egui_user_textures'.textures[h] = egui_user_textures.textures[h]

\* C36: the texture manager ignores the entries of a delta that carry a user
\* id.  A run of update_egui_textures_system or free_egui_textures_system
\* leaves the managed textures and the image assets as the delta without
\* these entries would (with the targets in the same order), so unchanged if
\* the delta has no others, and the registry of user textures keeps every
\* image and id also when an entry names the id.
C36_UserEntriesIgnored ==
    [][/\ UpdateStep =>
            \E order \in Orders(Targets) :
            LET st == UpdateTargets([textures |-> egui_managed_textures,
                                     assets |-> image_assets, next |-> next_asset,
                                     warnings |-> 0, panicked |-> FALSE,
                                     outputs |-> ManagedOnly(render_output)],
                                    order)
            IN /\ egui_managed_textures' = st.textures
               /\ image_assets' = st.assets
               /\ next_asset' = st.next
               /\ warnings' = st.warnings
               /\ panicked' = st.panicked
               /\ egui_user_textures' = egui_user_textures
       /\ (UpdateStep /\ OnlyUserSets) =>
            UNCHANGED <<egui_managed_textures, image_assets, next_asset>>
       /\ FreeStep =>
            \E order \in Orders(Targets) :
            LET st == FreeTargets([textures |-> egui_managed_textures,
                                   assets |-> image_assets, removed |-> {},
                                   outputs |-> ManagedOnly(render_output)],
                                  order)
            IN /\ egui_managed_textures' = st.textures
               /\ image_assets' = st.assets
               /\ RegistryKept
       /\ (FreeStep /\ OnlyUserFrees) =>
            UNCHANGED <<egui_managed_textures, image_assets>>]_vars

\* The systems have applied an upload of the managed texture and an entry
\* for the user id 0, which the registry has given to an image: the
\* stores have the managed texture and its asset and nothing else, and the
\* registry has the image under its id.
C36_Witness ==
    /\ phase = "extract" /\ ~panicked /\ warnings = 0
    /\ emitted = 2
    /\ \A e \in Targets : render_output[e] = NoDelta
    /\ DOMAIN egui_managed_textures = {<<<<0, 0>>, 0>>}
    /\ egui_managed_textures[<<<<0, 0>>, 0>>] = [handle |-> NumHandles, color_image |-> ImgA]
    /\ DOMAIN image_assets = {NumHandles}
    /\ next_asset = NumHandles + 1
    /\ \E h \in DOMAIN egui_user_textures.textures : egui_user_textures.textures[h] = 0

\* The texture's handle is that of an image asset made from the stored image.
AssetMatchesBuffer(key) ==
    /\ egui_managed_textures[key].handle \in DOMAIN image_assets
    /\ AssetOf(egui_managed_textures, image_assets, key).data
          = egui_managed_textures[key].color_image.pixels
    /\ AssetOf(egui_managed_textures, image_assets, key)
          = color_image_as_bevy_image(egui_managed_textures[key].color_image)

\* C37: whatever full uploads and patches have been applied, the handle of
\* every managed texture is that of an image asset whose pixels are the
\* pixels of the image the store keeps for the texture.  (A patch that
\* reaches past its texture panics in the middle of its writes; the app ends
\* there, with the stored image ahead of the asset.)
C37_AssetMatchesBuffer ==
    ~panicked => \A key \in DOMAIN egui_managed_textures : AssetMatchesBuffer(key)

\* A texture uploaded and then patched: its asset is the second the manager
\* added and has the patched pixels, and the extraction has its handle.
C37_Witness ==
    /\ phase = "queue" /\ ~panicked
    /\ \E key \in DOMAIN egui_managed_textures :
          /\ egui_managed_textures[key].color_image.pixels = <<1, 2, 8, 4, 5, 9>>
          /\ egui_managed_textures[key].handle = 1
          /\ image_assets[1].data = <<1, 2, 8, 4, 5, 9>>
          /\ image_assets[0].data = ImgA.pixels
          /\ extracted_managed[key] = 1

\* The app has ended in a patch that reaches past the texture: the stored
\* image has the pixel written before the panic, the asset has not.
PanicLeavesBufferAhead ==
    /\ panicked
    /\ \E key \in DOMAIN egui_managed_textures : ~AssetMatchesBuffer(key)

\* The entities a node system's query or event reader yields in the
\* extraction that starts now.
EventsOf(system) ==
    CASE system = "setup_new_window_nodes_system"
            -> NewWindowNodesQuery(added_window, synced)
      [] system = "teardown_window_nodes_system" -> removed_window
      [] system = "setup_new_render_to_image_nodes_system"
            -> NewRenderToImageNodesQuery(added_image, synced)
      [] system = "teardown_render_to_image_nodes_system" -> removed_image

\* What the node systems can leave when they run in the order given, from
\* the state as it is, each loop in any order its query or reader may yield;
\* a panic ends the extraction.
RECURSIVE RunInOrder(_, _)
RunInOrder(st, order) ==
    IF order = <<>> \/ st.panicked THEN {st}
    ELSE UNION {RunInOrder(ForEach(Head(order), st, entities), Tail(order)) :
                   entities \in Orders(EventsOf(Head(order)))}

\* The sets of nodes the order can leave, each with whether it panicked.
NodesLeftBy(order) ==
    {<<DOMAIN st.graph, st.panicked>> : st \in RunInOrder(NewGraph, order)}

\* An extraction may start, and every order of its systems leaves the same
\* nodes.
ExtractionMayStart ==
    gphase # "extract" /\ cphase = "initialised" /\ ~panicked /\ ~ctx_panicked
OrderLeavesSameNodes ==
    Cardinality(UNION {NodesLeftBy(order) : order \in Orders(NodeSystems)}) = 1

\* A marker was put back on an entity in the frame that removed it: the
\* extraction has both the Added entity and its removal event.
Reinserted ==
    added_window \cap removed_window # {} \/ added_image \cap removed_image # {}

\* C38: whatever components were added and removed in the frame, marker
\* removed and put back on one entity included, the nodes the extraction
\* leaves in the render graph are the same for every order in which its four
\* node systems run.
C38_NodesIndependentOfOrder == ExtractionMayStart => OrderLeavesSameNodes

\* The same for the frames in which no marker was removed and put back.
OrderIndependentWithoutReinsertion ==
    (ExtractionMayStart /\ ~Reinserted) => OrderLeavesSameNodes

====
